---- MODULE Spec2Model ----
(***************************************************************************)
(* BunProxyGUI: the process supervisor (ProcessManager), the instance      *)
(* registry (ServiceManager) and the server's exit handler, respawn timer  *)
(* and lifecycle API handlers.                                             *)
(*                                                                         *)
(* The server is one JavaScript event loop: every callback runs to its     *)
(* next await without interruption, so each action below is one such       *)
(* synchronous run.  A handler that awaits is split at the await; its      *)
(* continuation is a record of `pending` holding the handler's captured    *)
(* locals.                                                                 *)
(*                                                                         *)
(* Time.  Date.now() is the origin of the clock: every stored timestamp    *)
(* is kept as its offset from the present (past < 0, a timer's due time    *)
(* >= 0).  Tick moves the present forward by shifting all the offsets.     *)
(* An offset older than the 60 s window plus one clock step is kept at     *)
(* that value: the code only ever asks whether it is more than 60 s old.   *)
(*                                                                         *)
(* configManager.watch/unwatch act on a collaborator that none of the      *)
(* modelled state depends on; they are left out and taken not to throw.    *)
(* The registry's lastStarted and name fields are written but never read   *)
(* by the modelled code and are left out as well.                          *)
(***************************************************************************)
EXTENDS Integers, Sequences, FiniteSets, TLC

Instances == {"i1", "i2"}

\* the WebSocket connections a run can see
Sockets == {"w1", "w2"}

\* bounds of the model
MaxPid == 2
MaxLoopPid == 7
MaxLog == 2
MaxRequests == 1
MaxLines == 1002
MaxInbox == 4
MaxWsPid == 1
MaxDays == 1
MaxFine == 1

\* program constants
maxLogEntries == 1000
WINDOW_MS == 60000
MAX_ATTEMPTS == 5
BACKOFF_STEP_MS == 1000

\* `undefined` where a pid is expected (pids of real children are positive)
Undefined == 0

\* Date.now(): the origin all timestamps are offsets from
now == 0

VARIABLES
  instances,        \* ServiceManager.data.instances: array of instance metadata
  processes,        \* ProcessManager.processes: Map instanceId -> ChildProcess
  logs,             \* ProcessManager.logs: Map instanceId -> LogEntry[]
  children,         \* the OS: child processes spawned and not yet exited, each
                    \* with the number of lines it has written to stdout
  nextPid,          \* the OS: the pid the next successful spawn gets
  lastPid,          \* the OS: the last pid it hands out in this run
  restartAttempts,  \* server: Map instanceId -> {count, firstAttemptAt}
  timers,           \* event loop: pending setTimeout respawn callbacks (a bag)
  pending,          \* event loop: handlers suspended at an await
  out,              \* the messages passed to broadcast() by the last step
  res,              \* what the last step did (operation, outcome, decisions)
  hStreak,          \* history: consecutive crash-exits in the current 60 s span
  hLastExit,        \* history: when the previous exit was evaluated
  hGiveUps,         \* history: autoRestartFailed broadcasts in the current window
  hManual,          \* history: a manual start happened, no exit evaluated since
  hExited,          \* history: the pids whose processExit has been broadcast
  clients,          \* server: the Set of WebSockets, in insertion order
  inbox,            \* the network: what the peer of each open WebSocket has received
  sessions,         \* AuthManager.sessions: Map token -> {expires}
  auth,             \* ServiceManager.data.auth is set (hasAuth())
  clock,            \* Date.now() as the AuthManager reads it
  hCreatedAt        \* history: when createSession last issued each token that
                    \* deleteSession has not been called on since

vars == <<instances, processes, logs, children, nextPid, lastPid, restartAttempts,
          timers, pending, out, res, hStreak, hLastExit, hGiveUps, hManual,
          hExited, clients, inbox, sessions, auth, clock, hCreatedAt>>

wsVars == <<clients, inbox>>

authVars == <<sessions, auth, clock, hCreatedAt>>

pmVars == <<processes, logs, children, nextPid, lastPid>>

policyVars == <<restartAttempts, timers>>

hist == <<hStreak, hLastExit, hGiveUps, hManual>>

----------------------------------------------------------------------------
\* JavaScript Map as a function whose domain is the set of keys

MapSet(m, k, v) == [x \in (DOMAIN m) \cup {k} |-> IF x = k THEN v ELSE m[x]]

MapDelete(m, k) == [x \in (DOMAIN m) \ {k} |-> m[x]]

EmptyMap == [x \in {} |-> 0]

\* the AuthManager as constructed, no auth in services.json, the clock at its
\* origin
NoSessions ==
  /\ sessions = EmptyMap
  /\ auth = FALSE
  /\ clock = now
  /\ hCreatedAt = EmptyMap

\* a bag (multiset) as a function from its elements to their positive counts
BagAdd(b, x) ==
  IF x \in DOMAIN b THEN [b EXCEPT ![x] = @ + 1] ELSE MapSet(b, x, 1)

BagRemove(b, x) ==
  IF b[x] > 1 THEN [b EXCEPT ![x] = @ - 1] ELSE MapDelete(b, x)

Max(a, b) == IF a >= b THEN a ELSE b

Min(a, b) == IF a <= b THEN a ELSE b

\* the oldest offset that is told apart
Stale == WINDOW_MS + BACKOFF_STEP_MS

\* a timestamp t as seen after d ms have passed
Shift(t, d) == Max(t - d, 0 - Stale)

----------------------------------------------------------------------------
\* ServiceManager (the instance registry)

\* Array.findIndex; 0 stands for JavaScript's -1 (arrays here start at 1)
findIndex(list, id) ==
  IF \E k \in 1..Len(list) : list[k].id = id
  THEN CHOOSE k \in 1..Len(list) :
         /\ list[k].id = id
         /\ \A j \in 1..(k - 1) : list[j].id # id
  ELSE 0

\* getById(id) !== undefined
hasInstance(list, id) == findIndex(list, id) # 0

getById(list, id) == list[findIndex(list, id)]

\* an add that would not look for the id
addThrows_Never(list, id) == FALSE

\* add(): throws `Instance with ID ... already exists`
addThrows(list, id) == hasInstance(list, id)

\* add(): instances.push(instance)
add(list, instance) == Append(list, instance)

\* update(): the array after { ...old, ...updates }; called only when the id exists
update(list, id, updates) ==
  [list EXCEPT ![findIndex(list, id)] =
     [f \in DOMAIN @ |-> IF f \in DOMAIN updates THEN updates[f] ELSE @[f]]]

\* update/remove/setPid throw `Instance with ID ... not found`
notFound(list, id) == findIndex(list, id) = 0

setPid(list, id, pid) == update(list, id, [pid |-> pid])

\* remove(): splice(index, 1)
remove(list, id) ==
  LET k == findIndex(list, id)
  IN  SubSeq(list, 1, k - 1) \o SubSeq(list, k + 1, Len(list))

----------------------------------------------------------------------------
\* ProcessManager

LogEntry(type, message) == [type |-> type, message |-> message]

\* an addLog that would keep every entry
addLog_NoTrim(lg, id, type, message) ==
  MapSet(lg, id, Append(IF id \in DOMAIN lg THEN lg[id] ELSE <<>>,
                        LogEntry(type, message)))

\* addLog: push, then keep only the last maxLogEntries entries
addLog(lg, id, type, message) ==
  LET old == IF id \in DOMAIN lg THEN lg[id] ELSE <<>>
      pushed == Append(old, LogEntry(type, message))
      kept == IF Len(pushed) > maxLogEntries
              THEN SubSeq(pushed, Len(pushed) - maxLogEntries + 1, Len(pushed))
              ELSE pushed
  IN  MapSet(lg, id, kept)

\* Array.prototype.slice(start) for the 1-based sequences used here
slice(l, start) ==
  LET from == IF start < 0 THEN Max(Len(l) + start, 0) ELSE Min(start, Len(l))
  IN  SubSeq(l, from + 1, Len(l))

\* the optional `limit` argument: absent, or a number
NoLimit == [given |-> FALSE, n |-> 0]

Limit(n) == [given |-> TRUE, n |-> n]

\* `limit ?` : undefined and 0 are falsy
truthy(limit) == limit.given /\ limit.n # 0

\* getLogs: `this.logs.get(instanceId) || []`, `limit ? logs.slice(-limit) : logs`
getLogs(lg, id, limit) ==
  LET l == IF id \in DOMAIN lg THEN lg[id] ELSE <<>>
  IN  IF truthy(limit) THEN slice(l, 0 - limit.n) ELSE l

isRunning(procs, id) == id \in DOMAIN procs

getPid(procs, id) == IF id \in DOMAIN procs THEN procs[id].pid ELSE Undefined

\* a start that would not look at the handles
StartRejects_NoCheck(procs, id) == FALSE

\* start(): `if (this.processes.has(instanceId)) throw ... is already running`
StartRejects(procs, id) == id \in DOMAIN procs

\* the ChildProcess objects spawn() can return: a child with a fresh pid, or
\* (the OS refused) one without a pid, whose 'error' event is still to come
ChildProcess(pid) == [pid |-> pid, signal |-> "none"]

SpawnOutcomes == {ChildProcess(nextPid), ChildProcess(Undefined)}

\* start(): processes.set(instanceId, child)
startProcesses(procs, id, child) == MapSet(procs, id, child)

\* a start that would keep the entries of earlier runs
startLogs_Appends(lg, id, child) ==
  addLog(lg, id, "system",
         IF child.pid = Undefined THEN "started-no-pid" ELSE "started")

\* start(): logs.set(instanceId, []) and the 'Process started' entry
startLogs(lg, id, child) ==
  addLog(MapSet(lg, id, <<>>), id, "system",
         IF child.pid = Undefined THEN "started-no-pid" ELSE "started")

\* start(): `if (!child.pid) throw new Error('Failed to get process PID')`
startThrowsNoPid(child) == child.pid = Undefined

\* the OS after a spawn
spawnChildren(id, child) ==
  IF child.pid = Undefined THEN children
  ELSE children \cup {[id |-> id, pid |-> child.pid, wrote |-> 0]}

spawnNextPid(child) == IF child.pid = Undefined THEN nextPid ELSE nextPid + 1

\* a stop that would not look whether there is a handle
stopThrows_Never(procs, id) == FALSE

\* stop(): throws `No running process found` when the Map has no entry
stopThrows(procs, id) == id \notin DOMAIN procs

\* a stop that would drop the handle itself
stopProcesses_Removes(procs, id, force) == MapDelete(procs, id)

\* stop(): child.kill(SIGKILL | SIGTERM); a child that never got a pid has no
\* OS handle and kill() leaves it as it is
stopProcesses(procs, id, force) ==
  IF id \notin DOMAIN procs \/ procs[id].pid = Undefined THEN procs
  ELSE [procs EXCEPT ![id].signal = IF force THEN "SIGKILL" ELSE "SIGTERM"]

stopLogs(lg, id, force) ==
  addLog(lg, id, "system", IF force THEN "stopping-force" ELSE "stopping")

\* child.on('exit'): the log entry, then (after the listeners) processes.delete
exitLogs(lg, id) == addLog(lg, id, "system", "exited")

\* an exit that would drop every instance's handle
exitProcesses_All(procs, id) == EmptyMap

\* an exit that would leave the handle registered
exitProcesses_Keeps(procs, id) == procs

\* child.on('exit'): `this.processes.delete(instanceId)`
exitProcesses(procs, id) == MapDelete(procs, id)

\* child.on('error'): the log entry
errorLogs(lg, id) == addLog(lg, id, "system", "error")

----------------------------------------------------------------------------
\* broadcast() messages

Ev(type, id, n) == [type |-> type, instanceId |-> id, n |-> n, data |-> <<>>]

InstancesEv(list) == [type |-> "instances", instanceId |-> "", n |-> 0, data |-> list]

\* what a step reports in `res`
Res(op, id) ==
  [op |-> op, id |-> id, err |-> "", pid |-> Undefined, found |-> FALSE,
   eligible |-> FALSE, signal |-> "none", stale |-> FALSE, count |-> 0,
   backoffMs |-> 0, gaveUp |-> FALSE, streak |-> 0, gap |-> 0, manual |-> FALSE,
   limit |-> NoLimit, entries |-> <<>>, via |-> "", running |-> FALSE,
   seenPid |-> Undefined, failed |-> {}, ws |-> "", path |-> <<>>, token |-> "",
   validated |-> FALSE, next |-> FALSE, status |-> 0]

----------------------------------------------------------------------------------------------------------------------------------------------------
\* Restart policy (the server's 'exit' listener)

NoInfo == [count |-> 0, firstAttemptAt |-> now]

\* `restartAttempts.get(instanceId) || { count: 0, firstAttemptAt: now }`
loadInfo(ra, id) == IF id \in DOMAIN ra THEN ra[id] ELSE NoInfo

\* a window that would never go stale
windowStale_Never(info) == FALSE

\* `now - info.firstAttemptAt > 60_000`
windowStale(info) == now - info.firstAttemptAt > WINDOW_MS

\* the window after the refresh
refreshInfo(info) == IF windowStale(info) THEN NoInfo ELSE info

\* a policy that would respawn every instance
policyApplies_AnyInstance(found, autoRestart) == TRUE

\* `if (instance && instance.autoRestart)`
policyApplies(found, autoRestart) == found /\ autoRestart

\* a policy that would give up one attempt later
givesUp_Late(info) == info.count > MAX_ATTEMPTS

\* `if (info.count >= 5)`
givesUp(info) == info.count >= MAX_ATTEMPTS

\* `info.count += 1`
countAttempt(info) == [info EXCEPT !.count = @ + 1]

\* `const backoffMs = 1000 * info.count`
backoffMs(info) == BACKOFF_STEP_MS * info.count

\* a respawn that would keep the window
respawnClears_Keeps(ra, id) == ra

\* respawn timer, on success: `restartAttempts.delete(instanceId)`
respawnClears(ra, id) == MapDelete(ra, id)

\* respawn timer: `if (!fresh) return;`
respawnSkipsGone(list, id) == ~hasInstance(list, id)

\* a respawn timer that would not look whether the instance runs
respawnSkipsRunning_Never(procs, id) == FALSE

\* respawn timer: `if (processManager.isRunning(instanceId)) { ...; return; }`
respawnSkipsRunning(procs, id) == isRunning(procs, id)

\* a catch block that would clear the window
respawnFailed_Clears(ra, id) == MapDelete(ra, id)

\* respawn timer, catch block: broadcasts autoRestartError and leaves
\* restartAttempts alone
respawnFailed(ra, id) == ra

\* history: one more event in a 60 s span that starts with its first event
Counted(h) ==
  IF h.n = 0 \/ now - h.first > WINDOW_MS
  THEN [n |-> 1, first |-> now]
  ELSE [h EXCEPT !.n = @ + 1]

NoSpan == [n |-> 0, first |-> 0]

\* The listener from its first broadcast on (lines 226-298).  `found` and
\* `autoRestart` are the `instance` the listener read when the event arrived,
\* `signal` the signal the exited child had been sent, `pid` its pid.
EvaluateExit(op, id, found, autoRestart, signal, pid) ==
  LET info == refreshInfo(loadInfo(restartAttempts, id))
      applies == policyApplies(found, autoRestart)
      gaveUp == applies /\ givesUp(info)
      scheduled == applies /\ ~givesUp(info)
      next == countAttempt(info)
      streak == IF applies /\ signal = "none" THEN Counted(hStreak[id]) ELSE NoSpan
  IN  /\ out' = <<Ev("processExit", id, 0), InstancesEv(instances)>>
                \o (IF gaveUp THEN <<Ev("autoRestartFailed", id, info.count)>> ELSE <<>>)
      /\ restartAttempts' = IF scheduled THEN MapSet(restartAttempts, id, next)
                            ELSE restartAttempts
      /\ timers' = IF scheduled
                   THEN BagAdd(timers, [id |-> id, fireAt |-> now + backoffMs(next)])
                   ELSE timers
      /\ res' = [Res(op, id) EXCEPT
                   !.pid = pid, !.found = found, !.eligible = found /\ autoRestart,
                   !.signal = signal,
                   !.stale = applies /\ id \in DOMAIN restartAttempts
                             /\ windowStale(restartAttempts[id]),
                   !.count = IF scheduled THEN next.count
                             ELSE IF gaveUp THEN info.count ELSE 0,
                   !.backoffMs = IF scheduled THEN backoffMs(next) ELSE 0,
                   !.gaveUp = gaveUp,
                   !.streak = streak.n,
                   !.gap = IF hLastExit[id] > now THEN 0 - 1 ELSE now - hLastExit[id],
                   !.manual = hManual[id]]
      /\ hStreak' = [hStreak EXCEPT ![id] = streak]
      /\ hLastExit' = IF applies THEN [hLastExit EXCEPT ![id] = now] ELSE hLastExit
      /\ hGiveUps' = IF gaveUp THEN [hGiveUps EXCEPT ![id] = @ + 1]
                     ELSE IF scheduled THEN [hGiveUps EXCEPT ![id] = 0]
                     ELSE hGiveUps
      /\ hManual' = [hManual EXCEPT ![id] = FALSE]
      /\ hExited' = hExited \cup {pid}

----------------------------------------------------------------------------
\* The observers (WebSocket clients)

\* a WebSocket as the Set holds it
Client(ws, readyState) == [ws |-> ws, readyState |-> readyState]

inClients(cl, ws) == \E i \in 1..Len(cl) : cl[i].ws = ws

isOpen(cl, ws) == \E i \in 1..Len(cl) : cl[i].ws = ws /\ cl[i].readyState = "OPEN"

\* clients.add(ws): a Set keeps insertion order
clientsAdd(cl, ws) == Append(cl, Client(ws, "OPEN"))

\* clients.delete(ws)
clientsDelete(cl, ws) == SelectSeq(cl, LAMBDA c : c.ws # ws)

\* a send that would put the message on the wire twice
send_Twice(ib, ws, data) == [ib EXCEPT ![ws] = Append(Append(@, data), data)]

\* client.send(data) that completes: the peer receives the message
send(ib, ws, data) == [ib EXCEPT ![ws] = Append(@, data)]

\* clients.forEach of broadcast(), from the i-th client on: a client that is
\* not OPEN is skipped; the send of a client in `bad` throws, and the
\* exception ends the loop and leaves broadcast()
RECURSIVE forEach(_, _, _, _, _)
forEach(cl, i, ib, data, bad) ==
  IF i > Len(cl) THEN [inbox |-> ib, raised |-> ""]
  ELSE IF cl[i].readyState # "OPEN" THEN forEach(cl, i + 1, ib, data, bad)
  ELSE IF cl[i].ws \in bad THEN [inbox |-> ib, raised |-> cl[i].ws]
  ELSE forEach(cl, i + 1, send(ib, cl[i].ws, data), data, bad)

\* broadcast(message)
broadcast(cl, ib, message, bad) == forEach(cl, 1, ib, message, bad)

\* the broadcast() calls of one handler run, in the order of the calls
RECURSIVE broadcastEach(_, _, _)
broadcastEach(cl, ib, messages) ==
  IF messages = <<>> THEN ib
  ELSE broadcastEach(cl, broadcast(cl, ib, Head(messages), {}).inbox, Tail(messages))

\* a connection handler that would send nothing
connectionSends_Nothing(list) == <<>>

\* wss.on('connection'): the initial `instances` message
connectionSends(list) == <<InstancesEv(list)>>

\* What the observers get from a handler run: every message the run passed
\* to broadcast(), every send completing.  No inbox is followed beyond
\* MaxInbox messages.
Delivered ==
  /\ clients' = clients
  /\ inbox' = broadcastEach(clients, inbox, out')
  /\ \A k \in Sockets : Len(inbox'[k]) <= MaxInbox

\* wss.on('connection'): a new WebSocket (a name is free again once its
\* connection is over)
Connect(k) ==
  /\ ~inClients(clients, k)
  /\ clients' = clientsAdd(clients, k)
  /\ inbox' = [inbox EXCEPT ![k] = connectionSends(instances)]
  /\ out' = <<>>
  /\ res' = [Res("connection", "") EXCEPT !.ws = k]
  /\ UNCHANGED <<instances, pmVars, policyVars, pending, hist, hExited, authVars>>

\* the connection starts to close (either side): readyState leaves OPEN, the
\* 'close' event is still to come; the peer reads no more, and what it has
\* read is followed no further
SocketClosing(k) ==
  /\ isOpen(clients, k)
  /\ clients' = [i \in 1..Len(clients) |->
                  IF clients[i].ws = k THEN Client(k, "CLOSING") ELSE clients[i]]
  /\ inbox' = [inbox EXCEPT ![k] = <<>>]
  /\ out' = <<>>
  /\ res' = [Res("closing", "") EXCEPT !.ws = k]
  /\ UNCHANGED <<instances, pmVars, policyVars, pending, hist, hExited, authVars>>

\* ws.on('close')
CloseEvent(k) ==
  /\ inClients(clients, k)
  /\ ~isOpen(clients, k)
  /\ clients' = clientsDelete(clients, k)
  /\ out' = <<>>
  /\ res' = [Res("close", "") EXCEPT !.ws = k]
  /\ UNCHANGED <<instances, pmVars, policyVars, pending, hist, hExited, inbox, authVars>>

\* broadcast(message) called by any handler, the sends of the sockets in
\* `bad` throwing: res.ws is the socket whose send threw, res.err the
\* exception that leaves broadcast() into the handler that called it
BroadcastCall(message, bad) ==
  LET r == broadcast(clients, inbox, message, bad)
  IN  /\ clients # <<>>
      /\ \A k \in bad : isOpen(clients, k)
      /\ clients' = clients
      /\ inbox' = r.inbox
      /\ \A k \in Sockets : Len(inbox'[k]) <= MaxInbox
      /\ out' = <<message>>
      /\ res' = [Res("broadcast", message.instanceId) EXCEPT
                   !.ws = r.raised,
                   !.err = IF r.raised = "" THEN "" ELSE "SendRaised"]
      /\ UNCHANGED <<instances, pmVars, policyVars, pending, hist, hExited, authVars>>

----------------------------------------------------------------------------
\* The child processes

\* spawn() is called only while the OS has a pid left to hand out in this run
CanSpawn(child) == nextPid <= lastPid

\* child.on('exit'): the Map as a listener called by emit('exit') finds it;
\* processes.delete is the statement after the emit
atEmitExit(procs, id) == procs

\* the 'exit' listener: `if (instance) await serviceManager.setPid(instanceId,
\* undefined)`, the registry as the call leaves it in memory
exitSetsPid(list, id) == setPid(list, id, Undefined)

\* a handler suspended at an await, with the locals it captured
Cont(kind, id, pid, autoRestart, signal) ==
  [kind |-> kind, id |-> id, pid |-> pid, autoRestart |-> autoRestart, signal |-> signal]

\* the 'error' event Node queues for a child the OS refused to create
errorEvents(id, child) ==
  IF child.pid = Undefined THEN {Cont("childError", id, Undefined, FALSE, "none")} ELSE {}

\* ProcessManager.start from the spawn on (lines 36-86)
DoStart(id, child) ==
  /\ processes' = startProcesses(processes, id, child)
  /\ logs' = startLogs(logs, id, child)
  /\ children' = spawnChildren(id, child)
  /\ nextPid' = spawnNextPid(child)
  /\ lastPid' = lastPid

\* ProcessManager.stop past its check (lines 95-102)
DoStop(id, force) ==
  /\ processes' = stopProcesses(processes, id, force)
  /\ logs' = stopLogs(logs, id, force)
  /\ UNCHANGED <<children, nextPid, lastPid>>

----------------------------------------------------------------------------
\* ProcessManager called directly, with no listener attached

PMStart(id, child) ==
  /\ UNCHANGED hExited
  /\ CanSpawn(child)
  /\ IF StartRejects(processes, id)
     THEN /\ res' = [Res("start", id) EXCEPT !.err = "AlreadyRunning"]
          /\ UNCHANGED <<pmVars, pending>>
     ELSE /\ DoStart(id, child)
          /\ pending' = pending \cup errorEvents(id, child)
          /\ res' = IF startThrowsNoPid(child)
                    THEN [Res("start", id) EXCEPT !.err = "SpawnError"]
                    ELSE [Res("start", id) EXCEPT !.pid = child.pid]
  /\ out' = <<>>
  /\ UNCHANGED <<instances, policyVars, hist>>
  /\ UNCHANGED authVars
  /\ Delivered

PMStop(id, force) ==
  /\ UNCHANGED hExited
  /\ id \in DOMAIN logs => Len(logs[id]) < MaxLog
  /\ IF stopThrows(processes, id)
     THEN /\ res' = [Res("stop", id) EXCEPT !.err = "NotRunning"]
          /\ UNCHANGED pmVars
     ELSE /\ DoStop(id, force)
          /\ res' = Res("stop", id)
  /\ out' = <<>>
  /\ UNCHANGED <<instances, policyVars, pending, hist>>
  /\ UNCHANGED authVars
  /\ Delivered

\* a stopAll whose loop would end at the first stop that throws
stopAllTargets_AbortOnFailure(procs, failed) ==
  IF failed = {} THEN DOMAIN procs ELSE {}

\* stopAll(): the instances whose stop() completes; the loop goes over every
\* entry of the Map and the catch swallows a stop that throws
stopAllTargets(procs, failed) == DOMAIN procs \ failed

\* ProcessManager.stopAll; `failed` are the handles whose kill() throws
PMStopAll(failed) ==
  /\ UNCHANGED hExited
  /\ failed \subseteq DOMAIN processes
  /\ \A id \in DOMAIN processes : id \in DOMAIN logs => Len(logs[id]) < MaxLog
  /\ processes' = [id \in DOMAIN processes |->
                     IF id \in stopAllTargets(processes, failed)
                     THEN stopProcesses(processes, id, FALSE)[id]
                     ELSE processes[id]]
  /\ logs' = [id \in DOMAIN logs \cup DOMAIN processes |->
                IF id \in DOMAIN processes
                THEN stopLogs(logs, id, FALSE)[id]
                ELSE logs[id]]
  /\ res' = [Res("stopAll", "") EXCEPT !.failed = failed]
  /\ out' = <<>>
  /\ UNCHANGED <<children, nextPid, lastPid, instances, policyVars, pending, hist>>
  /\ UNCHANGED authVars
  /\ Delivered

\* child.on('exit') with no 'exit' listener
PMExit(c) ==
  /\ UNCHANGED hExited
  /\ c \in children
  /\ children' = children \ {c}
  /\ logs' = exitLogs(logs, c.id)
  /\ processes' = exitProcesses(processes, c.id)
  /\ res' = [Res("exit", c.id) EXCEPT
               !.pid = c.pid, !.signal = processes[c.id].signal,
               !.running = isRunning(atEmitExit(processes, c.id), c.id),
               !.seenPid = getPid(atEmitExit(processes, c.id), c.id)]
  /\ out' = <<>>
  /\ UNCHANGED <<instances, nextPid, lastPid, policyVars, pending, hist>>
  /\ UNCHANGED authVars
  /\ Delivered

\* child.on('error'); the server's 'error' listener broadcasts processError
ChildError(w) ==
  /\ UNCHANGED hExited
  /\ w \in pending
  /\ w.kind = "childError"
  /\ pending' = pending \ {w}
  /\ logs' = errorLogs(logs, w.id)
  /\ out' = <<Ev("processError", w.id, 0)>>
  /\ res' = Res("childError", w.id)
  /\ UNCHANGED <<instances, processes, children, nextPid, lastPid, policyVars, hist>>
  /\ UNCHANGED authVars
  /\ Delivered

\* restart(): the interval's test `if (!this.isRunning(instanceId))`
restartPollResolves_Always(procs, id) == TRUE

restartPollResolves(procs, id) == ~isRunning(procs, id)

\* a timeout that would resolve the wait only once the handle is gone
restartCapResolves_OnlyWhenGone(procs, id) == ~isRunning(procs, id)

\* restart(): the 10 s timeout calls resolve() whatever the handle
restartCapResolves(procs, id) == TRUE

\* restart()'s `return this.start(instanceId, options)`, reached with the
\* wait resolved by `via`
RestartStart(id, child, via) ==
  IF StartRejects(processes, id)
  THEN /\ res' = [Res("restartDone", id) EXCEPT !.err = "AlreadyRunning", !.via = via,
                     !.running = isRunning(processes, id)]
       /\ UNCHANGED pmVars
       /\ pending' = {w \in pending : ~(w.kind = "restartWait" /\ w.id = id)}
  ELSE /\ CanSpawn(child)
       /\ DoStart(id, child)
       /\ pending' = {w \in pending : ~(w.kind = "restartWait" /\ w.id = id)}
                       \cup errorEvents(id, child)
       /\ res' = IF startThrowsNoPid(child)
                 THEN [Res("restartDone", id) EXCEPT !.err = "SpawnError", !.via = via]
                 ELSE [Res("restartDone", id) EXCEPT !.pid = child.pid, !.via = via]

\* restart() up to its await: a graceful stop and the wait for the handle to
\* go, or, with no handle, start at once.  One restart of an instance waits
\* at a time.
PMRestart(id, child) ==
  /\ UNCHANGED hExited
  /\ \A w \in pending : ~(w.kind = "restartWait" /\ w.id = id)
  /\ IF isRunning(processes, id)
     THEN /\ Len(logs[id]) < MaxLog
          /\ DoStop(id, FALSE)
          /\ pending' = pending \cup
               {Cont("restartWait", id, getPid(processes, id), FALSE, "none")}
          /\ res' = [Res("restart", id) EXCEPT !.via = "wait", !.running = TRUE]
     ELSE RestartStart(id, child, "direct")
  /\ out' = <<>>
  /\ UNCHANGED <<instances, policyVars, hist>>
  /\ UNCHANGED authVars
  /\ Delivered

\* the 100 ms interval finds the handle gone, resolves the wait, and restart
\* goes on to start (an interval that finds the handle changes nothing)
RestartPoll(w, child) ==
  /\ UNCHANGED hExited
  /\ w \in pending
  /\ w.kind = "restartWait"
  /\ restartPollResolves(processes, w.id)
  /\ RestartStart(w.id, child, "poll")
  /\ out' = <<>>
  /\ UNCHANGED <<instances, policyVars, hist>>
  /\ UNCHANGED authVars
  /\ Delivered

\* the 10 s timeout resolves the wait, whatever the handle, and restart goes
\* on to start
RestartCap(w, child) ==
  /\ UNCHANGED hExited
  /\ w \in pending
  /\ w.kind = "restartWait"
  /\ restartCapResolves(processes, w.id)
  /\ RestartStart(w.id, child, "cap")
  /\ out' = <<>>
  /\ UNCHANGED <<instances, policyVars, hist>>
  /\ UNCHANGED authVars
  /\ Delivered

\* child.stdout.on('data') for the next line the child writes; the server's
\* 'log' listener broadcasts it
LogLine(c) ==
  /\ UNCHANGED hExited
  /\ c \in children
  /\ c.wrote < MaxLines
  /\ children' = (children \ {c}) \cup {[c EXCEPT !.wrote = @ + 1]}
  /\ logs' = addLog(logs, c.id, "stdout", ToString(c.wrote + 1))
  /\ out' = <<Ev("log", c.id, c.wrote + 1)>>
  /\ res' = [Res("log", c.id) EXCEPT !.pid = c.pid]
  /\ UNCHANGED <<instances, processes, nextPid, lastPid, policyVars, pending, hist>>
  /\ UNCHANGED authVars
  /\ Delivered

\* GET /api/instances/:id/logs: getLogs(instanceId, limit)
GetLogs(id, limit) ==
  /\ UNCHANGED hExited
  /\ res' = [Res("getLogs", id) EXCEPT !.limit = limit,
                                       !.entries = getLogs(logs, id, limit)]
  /\ out' = <<>>
  /\ UNCHANGED <<instances, pmVars, policyVars, pending, hist>>
  /\ UNCHANGED authVars
  /\ Delivered

----------------------------------------------------------------------------
\* The server's 'exit' listener

\* child.on('exit'): the listener runs to its first await (lines 220-224),
\* or to its end when the instance is gone, and then the handle is deleted
ChildExit(c) ==
  LET id == c.id
      found == hasInstance(instances, id)
      signal == processes[id].signal
  IN  /\ c \in children
      /\ children' = children \ {c}
      /\ logs' = exitLogs(logs, id)
      /\ processes' = exitProcesses(processes, id)
      /\ UNCHANGED <<nextPid, lastPid>>
      /\ IF found
         THEN /\ instances' = exitSetsPid(instances, id)
              /\ pending' = pending \cup
                   {Cont("exit", id, c.pid, getById(instances, id).autoRestart, signal)}
              /\ out' = <<>>
              /\ res' = [Res("exit", id) EXCEPT
                           !.pid = c.pid, !.signal = signal,
                           !.running = isRunning(atEmitExit(processes, id), id),
                           !.seenPid = getPid(atEmitExit(processes, id), id)]
              /\ UNCHANGED <<policyVars, hist, hExited>>
         ELSE /\ EvaluateExit("exitDone", id, FALSE, FALSE, signal, c.pid)
              /\ UNCHANGED <<instances, pending>>
      /\ UNCHANGED authVars
      /\ Delivered

\* the listener after `await serviceManager.setPid(instanceId, undefined)`
ExitDone(w, saved) ==
  /\ w \in pending
  /\ w.kind = "exit"
  /\ pending' = pending \ {w}
  /\ IF saved
     THEN EvaluateExit("exitDone", w.id, TRUE, w.autoRestart, w.signal, w.pid)
     ELSE /\ out' = <<>>
          /\ res' = [Res("exitDone", w.id) EXCEPT !.err = "save", !.pid = w.pid]
          /\ UNCHANGED <<policyVars, hist, hExited>>
  /\ UNCHANGED <<instances, pmVars>>
  /\ UNCHANGED authVars
  /\ Delivered

\* the respawn timer's callback up to its await (lines 263-280)
TimerFire(t, child) ==
  LET id == t.id
  IN  /\ UNCHANGED hExited
      /\ t \in DOMAIN timers
      /\ t.fireAt <= now
      /\ timers' = BagRemove(timers, t)
      /\ IF respawnSkipsGone(instances, id)
         THEN /\ res' = [Res("timer", id) EXCEPT !.err = "gone"]
              /\ out' = <<>>
              /\ UNCHANGED <<instances, pmVars, restartAttempts, pending, hist>>
         ELSE IF respawnSkipsRunning(processes, id)
         THEN /\ restartAttempts' = MapDelete(restartAttempts, id)
              /\ hGiveUps' = [hGiveUps EXCEPT ![id] = 0]
              /\ res' = [Res("timer", id) EXCEPT !.err = "running"]
              /\ out' = <<>>
              /\ UNCHANGED <<instances, pmVars, pending, hStreak, hLastExit, hManual>>
         ELSE IF StartRejects(processes, id)
         THEN /\ restartAttempts' = respawnFailed(restartAttempts, id)
              /\ out' = <<Ev("autoRestartError", id, 0)>>
              /\ res' = [Res("timer", id) EXCEPT !.err = "AlreadyRunning"]
              /\ UNCHANGED <<instances, pmVars, pending, hist>>
         ELSE /\ CanSpawn(child)
              /\ DoStart(id, child)
              /\ IF startThrowsNoPid(child)
                 THEN /\ restartAttempts' = respawnFailed(restartAttempts, id)
                      /\ pending' = pending \cup errorEvents(id, child)
                      /\ out' = <<Ev("autoRestartError", id, 0)>>
                      /\ res' = [Res("timer", id) EXCEPT !.err = "SpawnError"]
                      /\ UNCHANGED <<instances, hist>>
                 ELSE /\ restartAttempts' = restartAttempts
                      /\ instances' = setPid(instances, id, child.pid)
                      /\ pending' = pending \cup {Cont("respawn", id, child.pid, FALSE, "none")}
                      /\ out' = <<>>
                      /\ res' = [Res("timer", id) EXCEPT !.pid = child.pid]
                      /\ UNCHANGED hist
      /\ UNCHANGED authVars
      /\ Delivered

\* the callback after `await serviceManager.setPid(instanceId, pid)` (lines 281-293)
RespawnDone(w, saved) ==
  /\ UNCHANGED hExited
  /\ w \in pending
  /\ w.kind = "respawn"
  /\ pending' = pending \ {w}
  /\ IF saved
     THEN /\ restartAttempts' = respawnClears(restartAttempts, w.id)
          /\ hGiveUps' = [hGiveUps EXCEPT ![w.id] = 0]
          /\ out' = <<Ev("instanceStarted", w.id, w.pid), InstancesEv(instances)>>
          /\ res' = [Res("respawnDone", w.id) EXCEPT !.pid = w.pid]
     ELSE /\ restartAttempts' = respawnFailed(restartAttempts, w.id)
          /\ out' = <<Ev("autoRestartError", w.id, 0)>>
          /\ res' = [Res("respawnDone", w.id) EXCEPT !.err = "save", !.pid = w.pid]
          /\ hGiveUps' = hGiveUps
  /\ UNCHANGED <<instances, pmVars, timers, hStreak, hLastExit, hManual>>
  /\ UNCHANGED authVars
  /\ Delivered

----------------------------------------------------------------------------
\* The lifecycle API handlers

\* the requests whose handlers are suspended at an await
Requests ==
  {w \in pending : w.kind \in {"start", "stop", "delete", "put", "restart",
                                "updateStop", "updateSave"}}

CanAccept == Cardinality(Requests) < MaxRequests

\* A handler's early return (404 not found, 400 wrong state) changes nothing
\* and is the handler's guard.

\* POST /api/instances/:id/start up to its await (lines 631-647)
ApiStart(id, child) ==
  /\ UNCHANGED hExited
  /\ CanAccept
  /\ hasInstance(instances, id)
  /\ ~isRunning(processes, id)
  /\ IF StartRejects(processes, id)
     THEN /\ res' = [Res("apiStart", id) EXCEPT !.err = "AlreadyRunning"]
          /\ out' = <<>>
          /\ UNCHANGED <<instances, pmVars, policyVars, pending, hist>>
     ELSE
       /\ CanSpawn(child)
       /\ DoStart(id, child)
       /\ out' = <<>>
       /\ IF startThrowsNoPid(child)
          THEN /\ pending' = pending \cup errorEvents(id, child)
               /\ res' = [Res("apiStart", id) EXCEPT !.err = "SpawnError"]
               /\ UNCHANGED <<instances, hist>>
          ELSE /\ instances' = setPid(instances, id, child.pid)
               /\ pending' = pending \cup {Cont("start", id, child.pid, FALSE, "none")}
               /\ res' = [Res("apiStart", id) EXCEPT !.pid = child.pid]
               /\ hStreak' = [hStreak EXCEPT ![id] = NoSpan]
               /\ hGiveUps' = [hGiveUps EXCEPT ![id] = 0]
               /\ hManual' = [hManual EXCEPT ![id] = TRUE]
               /\ hLastExit' = hLastExit
       /\ UNCHANGED policyVars
  /\ UNCHANGED authVars
  /\ Delivered

\* ... after `await serviceManager.setPid(instanceId, pid)` (lines 649-668)
StartDone(w, saved) ==
  /\ UNCHANGED hExited
  /\ w \in pending
  /\ w.kind = "start"
  /\ pending' = pending \ {w}
  /\ IF saved
     THEN /\ out' = <<Ev("instanceStarted", w.id, w.pid), InstancesEv(instances)>>
          /\ res' = [Res("startDone", w.id) EXCEPT !.pid = w.pid]
     ELSE /\ out' = <<>>
          /\ res' = [Res("startDone", w.id) EXCEPT !.err = "500", !.pid = w.pid]
  /\ UNCHANGED <<instances, pmVars, policyVars, hist>>
  /\ UNCHANGED authVars
  /\ Delivered

\* POST /api/instances/:id/stop up to its await (lines 674-683)
ApiStop(id) ==
  /\ UNCHANGED hExited
  /\ CanAccept
  /\ isRunning(processes, id)
  /\ Len(logs[id]) < MaxLog
  /\ out' = <<>>
  /\ DoStop(id, FALSE)
  /\ IF notFound(instances, id)
     THEN /\ res' = [Res("apiStop", id) EXCEPT !.err = "500"]
          /\ UNCHANGED <<instances, pending>>
     ELSE /\ instances' = setPid(instances, id, Undefined)
          /\ pending' = pending \cup {Cont("stop", id, Undefined, FALSE, "none")}
          /\ res' = Res("apiStop", id)
  /\ UNCHANGED <<policyVars, hist>>
  /\ UNCHANGED authVars
  /\ Delivered

\* ... after `await serviceManager.setPid(instanceId, undefined)` (lines 685-702)
StopDone(w, saved) ==
  /\ UNCHANGED hExited
  /\ w \in pending
  /\ w.kind = "stop"
  /\ pending' = pending \ {w}
  /\ IF saved
     THEN /\ out' = <<Ev("instanceStopped", w.id, 0), InstancesEv(instances)>>
          /\ res' = Res("stopDone", w.id)
     ELSE /\ out' = <<>>
          /\ res' = [Res("stopDone", w.id) EXCEPT !.err = "500"]
  /\ UNCHANGED <<instances, pmVars, policyVars, hist>>
  /\ UNCHANGED authVars
  /\ Delivered

\* DELETE /api/instances/:id up to its await (lines 591-607)
ApiDelete(id) ==
  /\ UNCHANGED hExited
  /\ CanAccept
  /\ hasInstance(instances, id)
  /\ out' = <<>>
  /\ IF isRunning(processes, id)
     THEN DoStop(id, TRUE)
     ELSE UNCHANGED pmVars
  /\ instances' = remove(instances, id)
  /\ pending' = pending \cup {Cont("delete", id, Undefined, FALSE, "none")}
  /\ res' = Res("apiDelete", id)
  /\ UNCHANGED <<policyVars, hist>>
  /\ UNCHANGED authVars
  /\ Delivered

\* ... after `await serviceManager.remove(instanceId)` (lines 609-625)
DeleteDone(w, saved) ==
  /\ UNCHANGED hExited
  /\ w \in pending
  /\ w.kind = "delete"
  /\ pending' = pending \ {w}
  /\ IF saved
     THEN /\ out' = <<Ev("instanceRemoved", w.id, 0)>>
          /\ res' = Res("deleteDone", w.id)
     ELSE /\ out' = <<>>
          /\ res' = [Res("deleteDone", w.id) EXCEPT !.err = "500"]
  /\ UNCHANGED <<instances, pmVars, policyVars, hist>>
  /\ UNCHANGED authVars
  /\ Delivered

\* PUT /api/instances/:id with { autoRestart } up to its await (lines 807-825)
ApiPut(id, autoRestart) ==
  /\ UNCHANGED hExited
  /\ CanAccept
  /\ hasInstance(instances, id)
  /\ out' = <<>>
  /\ instances' = update(instances, id, [autoRestart |-> autoRestart])
  /\ pending' = pending \cup {Cont("put", id, Undefined, autoRestart, "none")}
  /\ res' = Res("apiPut", id)
  /\ UNCHANGED <<pmVars, policyVars, hist>>
  /\ UNCHANGED authVars
  /\ Delivered

\* ... after `await serviceManager.update(instanceId, updates)` (lines 827-835)
PutDone(w, saved) ==
  /\ UNCHANGED hExited
  /\ w \in pending
  /\ w.kind = "put"
  /\ pending' = pending \ {w}
  /\ IF saved
     THEN /\ out' = <<Ev("instanceUpdated", w.id, 0), InstancesEv(instances)>>
          /\ res' = Res("putDone", w.id)
     ELSE /\ out' = <<>>
          /\ res' = [Res("putDone", w.id) EXCEPT !.err = "500"]
  /\ UNCHANGED <<instances, pmVars, policyVars, hist>>
  /\ UNCHANGED authVars
  /\ Delivered

\* POST /api/instances/:id/restart past `processManager.restart` resolving
\* with `via`: restart()'s start, then, in the same run of the loop, the
\* handler's setPid up to its await (lines 715-720).  A start that throws and
\* a setPid that finds no instance end the handler in its catch (500).
ApiRestartStart(id, child, via) ==
  LET rest == {w \in pending : ~(w.kind = "apiRestartWait" /\ w.id = id)}
  IN  IF StartRejects(processes, id)
      THEN /\ res' = [Res("apiRestartStart", id) EXCEPT
                        !.err = "AlreadyRunning", !.via = via,
                        !.running = isRunning(processes, id)]
           /\ pending' = rest
           /\ UNCHANGED <<instances, pmVars, hist>>
      ELSE /\ CanSpawn(child)
           /\ DoStart(id, child)
           /\ IF startThrowsNoPid(child)
              THEN /\ pending' = rest \cup errorEvents(id, child)
                   /\ res' = [Res("apiRestartStart", id) EXCEPT
                                !.err = "SpawnError", !.via = via]
                   /\ UNCHANGED <<instances, hist>>
              ELSE IF notFound(instances, id)
              THEN /\ pending' = rest
                   /\ res' = [Res("apiRestartStart", id) EXCEPT
                                !.err = "NotFound", !.via = via, !.pid = child.pid]
                   /\ UNCHANGED <<instances, hist>>
              ELSE /\ instances' = setPid(instances, id, child.pid)
                   /\ pending' = rest \cup {Cont("restart", id, child.pid, FALSE, "none")}
                   /\ res' = [Res("apiRestartStart", id) EXCEPT
                                !.via = via, !.pid = child.pid]
                   /\ hStreak' = [hStreak EXCEPT ![id] = NoSpan]
                   /\ hGiveUps' = [hGiveUps EXCEPT ![id] = 0]
                   /\ hManual' = [hManual EXCEPT ![id] = TRUE]
                   /\ hLastExit' = hLastExit

\* POST /api/instances/:id/restart up to its first await (lines 708-718):
\* restart() stops a running process and waits for its handle to go, or,
\* with no handle, starts at once.  One restart of an instance waits at a time.
ApiRestart(id, child) ==
  /\ UNCHANGED hExited
  /\ CanAccept
  /\ hasInstance(instances, id)
  /\ \A w \in pending : ~(w.kind = "apiRestartWait" /\ w.id = id)
  /\ IF isRunning(processes, id)
     THEN /\ Len(logs[id]) < MaxLog
          /\ DoStop(id, FALSE)
          /\ pending' = pending \cup
               {Cont("apiRestartWait", id, getPid(processes, id), FALSE, "none")}
          /\ res' = [Res("apiRestart", id) EXCEPT !.via = "wait", !.running = TRUE]
          /\ UNCHANGED <<instances, hist>>
     ELSE ApiRestartStart(id, child, "direct")
  /\ out' = <<>>
  /\ UNCHANGED policyVars
  /\ UNCHANGED authVars
  /\ Delivered

\* restart()'s 100 ms interval finds the handle gone and resolves the wait
ApiRestartPoll(w, child) ==
  /\ UNCHANGED hExited
  /\ w \in pending
  /\ w.kind = "apiRestartWait"
  /\ restartPollResolves(processes, w.id)
  /\ ApiRestartStart(w.id, child, "poll")
  /\ out' = <<>>
  /\ UNCHANGED policyVars
  /\ UNCHANGED authVars
  /\ Delivered

\* restart()'s 10 s timeout resolves the wait
ApiRestartCap(w, child) ==
  /\ UNCHANGED hExited
  /\ w \in pending
  /\ w.kind = "apiRestartWait"
  /\ ApiRestartStart(w.id, child, "cap")
  /\ out' = <<>>
  /\ UNCHANGED policyVars
  /\ UNCHANGED authVars
  /\ Delivered

\* ... after `await serviceManager.setPid(instanceId, pid)` (lines 722-737)
ApiRestartDone(w, saved) ==
  /\ UNCHANGED hExited
  /\ w \in pending
  /\ w.kind = "restart"
  /\ pending' = pending \ {w}
  /\ IF saved
     THEN /\ out' = <<Ev("instanceRestarted", w.id, w.pid), InstancesEv(instances)>>
          /\ res' = [Res("apiRestartDone", w.id) EXCEPT !.pid = w.pid]
     ELSE /\ out' = <<>>
          /\ res' = [Res("apiRestartDone", w.id) EXCEPT !.err = "500", !.pid = w.pid]
  /\ UNCHANGED <<instances, pmVars, policyVars, hist>>
  /\ UNCHANGED authVars
  /\ Delivered

\* POST /api/instances/:id/update up to its first await (lines 926-944).
\* `instance` is the object getById returned; the handler keeps it to the
\* end, while every later registry write puts a new object into the array.
\* A running process is killed and its pid cleared first.
ApiUpdate(id) ==
  LET instance == getById(instances, id)
  IN  /\ UNCHANGED hExited
      /\ CanAccept
      /\ hasInstance(instances, id)
      /\ \A w \in pending : ~(w.kind \in {"updateStop", "updateFetch"} /\ w.id = id)
      /\ IF isRunning(processes, id)
         THEN /\ Len(logs[id]) < MaxLog
              /\ DoStop(id, TRUE)
              /\ instances' = setPid(instances, id, Undefined)
              /\ pending' = pending \cup
                   {Cont("updateStop", id, instance.pid, instance.autoRestart, "none")}
         ELSE /\ pending' = pending \cup
                   {Cont("updateFetch", id, instance.pid, instance.autoRestart, "none")}
              /\ UNCHANGED <<instances, pmVars>>
      /\ out' = <<>>
      /\ res' = [Res("apiUpdate", id) EXCEPT !.running = isRunning(processes, id)]
      /\ UNCHANGED <<policyVars, hist>>
      /\ UNCHANGED authVars
      /\ Delivered

\* ... after `await serviceManager.setPid(instanceId, undefined)` (lines
\* 946-958): the stop is announced; the handler then waits up to 2 s for the
\* handle to go and moves on to the download either way
UpdateStopped(w) ==
  /\ UNCHANGED hExited
  /\ w \in pending
  /\ w.kind = "updateStop"
  /\ pending' = (pending \ {w}) \cup {[w EXCEPT !.kind = "updateFetch"]}
  /\ out' = <<Ev("instanceStopped", w.id, 0), InstancesEv(instances)>>
  /\ res' = Res("updateStopped", w.id)
  /\ UNCHANGED <<instances, pmVars, policyVars, hist>>
  /\ UNCHANGED authVars
  /\ Delivered

\* ... once the release is found and the binary downloaded (lines 967-1019),
\* or not (`ok` false: the handler answers 400, 404, 429 or 500): the kept
\* `instance` object, with the new version, is written over the array entry
UpdateWrite(w, ok) ==
  /\ UNCHANGED hExited
  /\ w \in pending
  /\ w.kind = "updateFetch"
  /\ IF ~ok
     THEN /\ pending' = pending \ {w}
          /\ res' = [Res("updateWrite", w.id) EXCEPT !.err = "fetch"]
          /\ UNCHANGED instances
     ELSE IF notFound(instances, w.id)
     THEN /\ pending' = pending \ {w}
          /\ res' = [Res("updateWrite", w.id) EXCEPT !.err = "NotFound"]
          /\ UNCHANGED instances
     ELSE /\ instances' = update(instances, w.id,
                                  [id |-> w.id, autoRestart |-> w.autoRestart, pid |-> w.pid])
          /\ pending' = (pending \ {w}) \cup {[w EXCEPT !.kind = "updateSave"]}
          /\ res' = [Res("updateWrite", w.id) EXCEPT !.pid = w.pid]
  /\ out' = <<>>
  /\ UNCHANGED <<pmVars, policyVars, hist>>
  /\ UNCHANGED authVars
  /\ Delivered

\* ... after `await serviceManager.update(instanceId, instance)` (lines 1021-1032)
UpdateDone(w, saved) ==
  /\ UNCHANGED hExited
  /\ w \in pending
  /\ w.kind = "updateSave"
  /\ pending' = pending \ {w}
  /\ IF saved
     THEN /\ out' = <<Ev("instanceUpdated", w.id, 0), InstancesEv(instances)>>
          /\ res' = Res("updateDone", w.id)
     ELSE /\ out' = <<>>
          /\ res' = [Res("updateDone", w.id) EXCEPT !.err = "500"]
  /\ UNCHANGED <<instances, pmVars, policyVars, hist>>
  /\ UNCHANGED authVars
  /\ Delivered

----------------------------------------------------------------------------
\* The clock

\* The steps the clock moves by.  While a respawn timer is pending the clock
\* moves one backoff step at a time.  While none is, nothing the program does
\* depends on the time except whether a stored timestamp is more than one
\* window old, and the clock moves a whole window at a time.
TickSteps == IF DOMAIN timers = {} THEN {WINDOW_MS} ELSE {BACKOFF_STEP_MS}

ShiftSpan(h, d) == [h EXCEPT !.first = IF h.n = 0 THEN 0 ELSE Shift(@, d)]

\* d ms pass.  A timer fires when it is due, and an awaited file write or a
\* queued 'error' event completes within one step of the clock; a restart
\* may wait for its process, and an update for its download, across steps of
\* the clock.
Tick(d) ==
  /\ UNCHANGED hExited
  /\ \A w \in pending : w.kind \in {"apiRestartWait", "updateFetch"}
  /\ \A t \in DOMAIN timers : t.fireAt >= d
  /\ timers' = [u \in {[t EXCEPT !.fireAt = @ - d] : t \in DOMAIN timers} |->
                  timers[[u EXCEPT !.fireAt = @ + d]]]
  /\ restartAttempts' =
       [i \in DOMAIN restartAttempts |->
          [restartAttempts[i] EXCEPT !.firstAttemptAt = Shift(@, d)]]
  /\ hStreak' = [i \in Instances |-> ShiftSpan(hStreak[i], d)]
  /\ hLastExit' = [i \in Instances |-> IF hLastExit[i] > now THEN hLastExit[i]
                                       ELSE Shift(hLastExit[i], d)]
  /\ out' = <<>>
  /\ res' = Res("tick", "")
  /\ UNCHANGED <<instances, pmVars, pending, hGiveUps, hManual>>
  /\ UNCHANGED authVars
  /\ Delivered

----------------------------------------------------------------------------
\* The server after init() has loaded a registry that holds one stopped
\* instance; "i2" is an id the registry has never seen
Init ==
  /\ instances = <<[id |-> "i1", autoRestart |-> FALSE, pid |-> Undefined]>>
  /\ processes = EmptyMap
  /\ logs = EmptyMap
  /\ children = {}
  /\ nextPid = 1
  /\ lastPid = MaxPid
  /\ restartAttempts = EmptyMap
  /\ timers = EmptyMap
  /\ pending = {}
  /\ out = <<>>
  /\ res = Res("init", "")
  /\ hStreak = [i \in Instances |-> NoSpan]
  /\ hLastExit = [i \in Instances |-> 1]
  /\ hGiveUps = [i \in Instances |-> 0]
  /\ hManual = [i \in Instances |-> FALSE]
  /\ hExited = {}
  /\ clients = <<>>
  /\ inbox = [k \in Sockets |-> <<>>]
  /\ NoSessions

Next ==
  \/ \E id \in Instances, child \in SpawnOutcomes : ApiStart(id, child)
  \/ \E id \in Instances : ApiStop(id)
  \/ \E id \in Instances : ApiDelete(id)
  \/ \E id \in Instances, autoRestart \in BOOLEAN : ApiPut(id, autoRestart)
  \/ \E w \in pending, saved \in BOOLEAN : StartDone(w, saved)
  \/ \E w \in pending, saved \in BOOLEAN : StopDone(w, saved)
  \/ \E w \in pending, saved \in BOOLEAN : DeleteDone(w, saved)
  \/ \E w \in pending, saved \in BOOLEAN : PutDone(w, saved)
  \/ \E c \in children : ChildExit(c)
  \/ \E w \in pending, saved \in BOOLEAN : ExitDone(w, saved)
  \/ \E w \in pending : ChildError(w)
  \/ \E t \in DOMAIN timers, child \in SpawnOutcomes : TimerFire(t, child)
  \/ \E w \in pending, saved \in BOOLEAN : RespawnDone(w, saved)
  \/ \E d \in TickSteps : Tick(d)

Spec == Init /\ [][Next]_vars

\* ProcessManager on its own: any caller, any order of calls
NextPM ==
  \/ \E id \in Instances, child \in SpawnOutcomes : PMStart(id, child)
  \/ \E id \in Instances, force \in BOOLEAN : PMStop(id, force)
  \/ \E failed \in SUBSET Instances : PMStopAll(failed)
  \/ \E c \in children : PMExit(c)
  \/ \E w \in pending : ChildError(w)

SpecPM == Init /\ [][NextPM]_vars

\* The crash loop: autoRestart is on, the binary can be spawned, and nobody
\* stops, deletes or reconfigures the instance
InitLoop ==
  /\ instances = <<[id |-> "i1", autoRestart |-> TRUE, pid |-> Undefined]>>
  /\ processes = EmptyMap
  /\ logs = EmptyMap
  /\ children = {}
  /\ nextPid = 1
  /\ lastPid = MaxLoopPid
  /\ restartAttempts = EmptyMap
  /\ timers = EmptyMap
  /\ pending = {}
  /\ out = <<>>
  /\ res = Res("init", "")
  /\ hStreak = [i \in Instances |-> NoSpan]
  /\ hLastExit = [i \in Instances |-> 1]
  /\ hGiveUps = [i \in Instances |-> 0]
  /\ hManual = [i \in Instances |-> FALSE]
  /\ hExited = {}
  /\ clients = <<>>
  /\ inbox = [k \in Sockets |-> <<>>]
  /\ NoSessions

NextLoop ==
  \/ \E id \in Instances : ApiStart(id, ChildProcess(nextPid))
  \/ \E w \in pending : StartDone(w, TRUE)
  \/ \E c \in children : ChildExit(c)
  \/ \E w \in pending : ExitDone(w, TRUE)
  \/ \E t \in DOMAIN timers : TimerFire(t, ChildProcess(nextPid))
  \/ \E w \in pending, saved \in BOOLEAN : RespawnDone(w, saved)
  \/ \E d \in TickSteps : Tick(d)

SpecLoop == InitLoop /\ [][NextLoop]_vars

\* Two registered instances with autoRestart on, run side by side; a manual
\* start may fail to spawn, respawns and registry saves succeed
InitTwo ==
  /\ instances = <<[id |-> "i1", autoRestart |-> TRUE, pid |-> Undefined],
                   [id |-> "i2", autoRestart |-> TRUE, pid |-> Undefined]>>
  /\ processes = EmptyMap
  /\ logs = EmptyMap
  /\ children = {}
  /\ nextPid = 1
  /\ lastPid = MaxPid
  /\ restartAttempts = EmptyMap
  /\ timers = EmptyMap
  /\ pending = {}
  /\ out = <<>>
  /\ res = Res("init", "")
  /\ hStreak = [i \in Instances |-> NoSpan]
  /\ hLastExit = [i \in Instances |-> 1]
  /\ hGiveUps = [i \in Instances |-> 0]
  /\ hManual = [i \in Instances |-> FALSE]
  /\ hExited = {}
  /\ clients = <<>>
  /\ inbox = [k \in Sockets |-> <<>>]
  /\ NoSessions

NextTwo ==
  \/ \E id \in Instances, child \in SpawnOutcomes : ApiStart(id, child)
  \/ \E w \in pending : StartDone(w, TRUE)
  \/ \E id \in Instances : ApiStop(id)
  \/ \E w \in pending : StopDone(w, TRUE)
  \/ \E c \in children : ChildExit(c)
  \/ \E w \in pending : ExitDone(w, TRUE)
  \/ \E w \in pending : ChildError(w)
  \/ \E t \in DOMAIN timers : TimerFire(t, ChildProcess(nextPid))
  \/ \E w \in pending : RespawnDone(w, TRUE)
  \/ \E d \in TickSteps : Tick(d)

SpecTwo == InitTwo /\ [][NextTwo]_vars

\* The server with the restart and update handlers: start, stop, restart,
\* update and delete called in any order on an instance whose autoRestart is on, while
\* processes exit and respawn timers fire
InitApi ==
  /\ instances = <<[id |-> "i1", autoRestart |-> TRUE, pid |-> Undefined]>>
  /\ processes = EmptyMap
  /\ logs = EmptyMap
  /\ children = {}
  /\ nextPid = 1
  /\ lastPid = MaxPid
  /\ restartAttempts = EmptyMap
  /\ timers = EmptyMap
  /\ pending = {}
  /\ out = <<>>
  /\ res = Res("init", "")
  /\ hStreak = [i \in Instances |-> NoSpan]
  /\ hLastExit = [i \in Instances |-> 1]
  /\ hGiveUps = [i \in Instances |-> 0]
  /\ hManual = [i \in Instances |-> FALSE]
  /\ hExited = {}
  /\ clients = <<>>
  /\ inbox = [k \in Sockets |-> <<>>]
  /\ NoSessions

NextApi ==
  \/ \E child \in SpawnOutcomes : ApiStart("i1", child)
  \/ \E child \in SpawnOutcomes : ApiRestart("i1", child)
  \/ \E w \in pending, child \in SpawnOutcomes : ApiRestartPoll(w, child)
  \/ \E w \in pending, child \in SpawnOutcomes : ApiRestartCap(w, child)
  \/ ApiStop("i1")
  \/ ApiDelete("i1")
  \/ ApiUpdate("i1")
  \/ \E w \in pending : UpdateStopped(w)
  \/ \E w \in pending, ok \in BOOLEAN : UpdateWrite(w, ok)
  \/ \E w \in pending : UpdateDone(w, TRUE)
  \/ \E w \in pending : StartDone(w, TRUE)
  \/ \E w \in pending : StopDone(w, TRUE)
  \/ \E w \in pending : ApiRestartDone(w, TRUE)
  \/ \E w \in pending : DeleteDone(w, TRUE)
  \/ \E c \in children : ChildExit(c)
  \/ \E w \in pending : ExitDone(w, TRUE)
  \/ \E w \in pending : ChildError(w)
  \/ \E t \in DOMAIN timers, child \in SpawnOutcomes : TimerFire(t, child)
  \/ \E w \in pending : RespawnDone(w, TRUE)
  \/ \E d \in TickSteps : Tick(d)

SpecApi == InitApi /\ [][NextApi]_vars

\* AuthManager and the /api/auth handlers

\* `private sessionDuration = 24 * 60 * 60 * 1000`
sessionDuration == 86400000

\* the strings generateSessionToken() can return and a client can send
Tokens == {"t1", "t2"}

\* no cookie, no header (undefined), or an empty one: falsy
NoToken == ""

\* req.path as its segments: <<"api", "instances">> is /api/instances
LoginPath == <<"api", "auth", "login">>

StatusPath == <<"api", "auth", "status">>

LogoutPath == <<"api", "auth", "logout">>

SetupPath == <<"api", "auth", "setup">>

\* paths whose handlers leave the sessions alone: an API route, the same
\* route spelled in upper case, a static file
OtherPaths == {<<"api", "instances">>, <<"API", "instances">>, <<"index.html">>}

\* req.path.startsWith('/api/')
startsWithApi(path) == Len(path) >= 2 /\ path[1] = "api"

\* the first test of the middleware: login, status and everything outside
\* /api/ go on unchecked
skipsAuth(path) == path = LoginPath \/ path = StatusPath \/ ~startsWithApi(path)

\* `req.cookies?.session || req.headers['x-session-token']`
requestToken(cookie, header) == IF cookie # NoToken THEN cookie ELSE header

\* createSession(): sessions.set(token, {username, expires: Date.now() + sessionDuration})
createSession(ss, token, t) == MapSet(ss, token, [expires |-> t + sessionDuration])

\* a validateSession that would never look at the expiry
expired_Never(session, t) == FALSE

\* `Date.now() > session.expires`
expired(session, t) == t > session.expires

\* validateSession(): what it returns
validateSession(ss, token, t) == token \in DOMAIN ss /\ ~expired(ss[token], t)

\* validateSession(): the Map after it (an expired session is deleted)
validateSessionDeletes(ss, token, t) ==
  IF token \in DOMAIN ss /\ expired(ss[token], t) THEN MapDelete(ss, token) ELSE ss

\* deleteSession(): sessions.delete(token)
deleteSession(ss, token) == MapDelete(ss, token)

\* verifyAuth(): with no auth configured every login is accepted
verifyAuth(hasAuth, credentialsOk) == ~hasAuth \/ credentialsOk

\* authMiddleware(): whether next() is called, the status it answers with
\* otherwise, whether validateSession ran, and the sessions afterwards
authMiddleware(path, hasAuth, ss, cookie, header, t) ==
  LET token == requestToken(cookie, header) IN
  IF skipsAuth(path) \/ ~hasAuth
  THEN [next |-> TRUE, status |-> 0, validated |-> FALSE, sessions |-> ss]
  ELSE IF token = NoToken
  THEN [next |-> FALSE, status |-> 401, validated |-> FALSE, sessions |-> ss]
  ELSE [next |-> validateSession(ss, token, t),
        status |-> IF validateSession(ss, token, t) THEN 0 ELSE 401,
        validated |-> TRUE,
        sessions |-> validateSessionDeletes(ss, token, t)]

AuthRes(op, path, token, m) ==
  [Res(op, "") EXCEPT !.path = path, !.token = token, !.validated = m.validated,
                      !.next = m.next, !.status = m.status]

\* a request to a route that does not touch the sessions
ApiRequest(path, cookie, header) ==
  LET m == authMiddleware(path, auth, sessions, cookie, header, clock) IN
  /\ sessions' = m.sessions
  /\ res' = AuthRes("request", path, requestToken(cookie, header), m)
  /\ out' = <<>>
  /\ UNCHANGED <<auth, clock, hCreatedAt>>
  /\ UNCHANGED <<instances, pmVars, policyVars, pending, hist, hExited, wsVars>>

\* POST /api/auth/login: the middleware lets it through; a session is
\* created when the body is complete and verifyAuth accepts it
AuthLogin(bodyOk, credentialsOk, token) ==
  LET m == authMiddleware(LoginPath, auth, sessions, NoToken, NoToken, clock) IN
  /\ IF ~bodyOk
     THEN /\ res' = [AuthRes("login", LoginPath, NoToken, m) EXCEPT !.status = 400]
          /\ UNCHANGED <<sessions, hCreatedAt>>
     ELSE IF ~verifyAuth(auth, credentialsOk)
     THEN /\ res' = [AuthRes("login", LoginPath, NoToken, m) EXCEPT !.status = 401]
          /\ UNCHANGED <<sessions, hCreatedAt>>
     ELSE /\ sessions' = createSession(sessions, token, clock)
          /\ hCreatedAt' = MapSet(hCreatedAt, token, clock)
          /\ res' = [AuthRes("login", LoginPath, token, m) EXCEPT !.status = 200]
  /\ out' = <<>>
  /\ UNCHANGED <<auth, clock>>
  /\ UNCHANGED <<instances, pmVars, policyVars, pending, hist, hExited, wsVars>>

\* POST /api/auth/logout: behind the middleware; deletes the session of the
\* token it reads
AuthLogout(cookie, header) ==
  LET m == authMiddleware(LogoutPath, auth, sessions, cookie, header, clock)
      token == requestToken(cookie, header)
  IN
  /\ IF m.next
     THEN /\ sessions' = IF token # NoToken THEN deleteSession(m.sessions, token)
                                            ELSE m.sessions
          /\ hCreatedAt' = IF token # NoToken THEN MapDelete(hCreatedAt, token)
                                              ELSE hCreatedAt
          /\ res' = [AuthRes("logout", LogoutPath, token, m) EXCEPT !.status = 200]
     ELSE /\ sessions' = m.sessions
          /\ res' = AuthRes("logout", LogoutPath, token, m)
          /\ UNCHANGED hCreatedAt
  /\ out' = <<>>
  /\ UNCHANGED <<auth, clock>>
  /\ UNCHANGED <<instances, pmVars, policyVars, pending, hist, hExited, wsVars>>

\* GET /api/auth/status: the middleware lets it through; the handler
\* validates the token it reads
AuthStatus(cookie, header) ==
  LET m == authMiddleware(StatusPath, auth, sessions, cookie, header, clock)
      token == requestToken(cookie, header)
  IN
  /\ sessions' = IF token # NoToken THEN validateSessionDeletes(sessions, token, clock)
                                    ELSE sessions
  /\ res' = [AuthRes("status", StatusPath, token, m) EXCEPT
               !.validated = (token # NoToken), !.status = 200,
               !.found = (token # NoToken /\ validateSession(sessions, token, clock))]
  /\ out' = <<>>
  /\ UNCHANGED <<auth, clock, hCreatedAt>>
  /\ UNCHANGED <<instances, pmVars, policyVars, pending, hist, hExited, wsVars>>

\* POST /api/auth/setup up to `await serviceManager.setAuth(...)`: behind the
\* middleware; 403 once auth is configured; setAuth assigns data.auth before
\* it awaits the save
AuthSetup(cookie, header, bodyOk) ==
  LET m == authMiddleware(SetupPath, auth, sessions, cookie, header, clock)
      token == requestToken(cookie, header)
  IN
  /\ sessions' = m.sessions
  /\ IF ~m.next
     THEN /\ res' = AuthRes("setup", SetupPath, token, m)
          /\ UNCHANGED <<auth, pending>>
     ELSE IF auth
     THEN /\ res' = [AuthRes("setup", SetupPath, token, m) EXCEPT !.status = 403]
          /\ UNCHANGED <<auth, pending>>
     ELSE IF ~bodyOk
     THEN /\ res' = [AuthRes("setup", SetupPath, token, m) EXCEPT !.status = 400]
          /\ UNCHANGED <<auth, pending>>
     ELSE /\ auth' = TRUE
          /\ pending' = pending \cup {Cont("setup", "", Undefined, FALSE, "none")}
          /\ res' = AuthRes("setup", SetupPath, token, m)
  /\ out' = <<>>
  /\ UNCHANGED <<clock, hCreatedAt>>
  /\ UNCHANGED <<instances, pmVars, policyVars, hist, hExited, wsVars>>

\* POST /api/auth/setup after the save: a session for the new user, or 500
AuthSetupDone(w, saved, token) ==
  /\ w.kind = "setup"
  /\ pending' = pending \ {w}
  /\ IF saved
     THEN /\ sessions' = createSession(sessions, token, clock)
          /\ hCreatedAt' = MapSet(hCreatedAt, token, clock)
          /\ res' = [Res("setupDone", "") EXCEPT !.path = SetupPath, !.token = token,
                                                !.status = 200]
     ELSE /\ res' = [Res("setupDone", "") EXCEPT !.path = SetupPath, !.status = 500,
                                                !.err = "save"]
          /\ UNCHANGED <<sessions, hCreatedAt>>
  /\ out' = <<>>
  /\ UNCHANGED <<auth, clock>>
  /\ UNCHANGED <<instances, pmVars, policyVars, hist, hExited, wsVars>>

\* time passes: a millisecond at a time around an expiry, or a whole
\* session lifetime
ClockTick(d) ==
  /\ \/ d = 1 /\ clock % sessionDuration < MaxFine
     \/ d = sessionDuration /\ clock \div sessionDuration < MaxDays
  /\ clock' = clock + d
  /\ res' = Res("tick", "")
  /\ out' = <<>>
  /\ UNCHANGED <<sessions, auth, hCreatedAt>>
  /\ UNCHANGED <<instances, pmVars, policyVars, pending, hist, hExited, wsVars>>

NextAuth ==
  \/ \E path \in OtherPaths, cookie, header \in Tokens \cup {NoToken} :
       ApiRequest(path, cookie, header)
  \/ \E bodyOk, credentialsOk \in BOOLEAN, token \in Tokens :
       AuthLogin(bodyOk, credentialsOk, token)
  \/ \E cookie, header \in Tokens \cup {NoToken} : AuthLogout(cookie, header)
  \/ \E cookie, header \in Tokens \cup {NoToken} : AuthStatus(cookie, header)
  \/ \E cookie, header \in Tokens \cup {NoToken}, bodyOk \in BOOLEAN :
       AuthSetup(cookie, header, bodyOk)
  \/ \E w \in pending, saved \in BOOLEAN, token \in Tokens : AuthSetupDone(w, saved, token)
  \/ \E d \in {1, sessionDuration} : ClockTick(d)

\* ServiceManager called directly, from an empty registry.  Each action is a
\* call up to its `await this.save()`: the check and the change of the list.
SMAdd(instance) ==
  /\ IF addThrows(instances, instance.id)
     THEN /\ res' = [Res("add", instance.id) EXCEPT !.err = "AlreadyExists"]
          /\ UNCHANGED instances
     ELSE /\ instances' = add(instances, instance)
          /\ res' = Res("add", instance.id)
  /\ out' = <<>>
  /\ UNCHANGED <<pmVars, policyVars, pending, hist, hExited>>
  /\ UNCHANGED authVars
  /\ Delivered

\* update(id, updates); the callers pass some fields (PUT) or a whole
\* instance with the same id (POST update)
SMUpdate(id, updates) ==
  /\ IF notFound(instances, id)
     THEN /\ res' = [Res("update", id) EXCEPT !.err = "NotFound"]
          /\ UNCHANGED instances
     ELSE /\ instances' = update(instances, id, updates)
          /\ res' = Res("update", id)
  /\ out' = <<>>
  /\ UNCHANGED <<pmVars, policyVars, pending, hist, hExited>>
  /\ UNCHANGED authVars
  /\ Delivered

SMRemove(id) ==
  /\ IF notFound(instances, id)
     THEN /\ res' = [Res("remove", id) EXCEPT !.err = "NotFound"]
          /\ UNCHANGED instances
     ELSE /\ instances' = remove(instances, id)
          /\ res' = Res("remove", id)
  /\ out' = <<>>
  /\ UNCHANGED <<pmVars, policyVars, pending, hist, hExited>>
  /\ UNCHANGED authVars
  /\ Delivered

SMSetPid(id, pid) ==
  /\ IF notFound(instances, id)
     THEN /\ res' = [Res("setPid", id) EXCEPT !.err = "NotFound"]
          /\ UNCHANGED instances
     ELSE /\ instances' = setPid(instances, id, pid)
          /\ res' = [Res("setPid", id) EXCEPT !.pid = pid]
  /\ out' = <<>>
  /\ UNCHANGED <<pmVars, policyVars, pending, hist, hExited>>
  /\ UNCHANGED authVars
  /\ Delivered

InitRegistry ==
  /\ instances = <<>>
  /\ processes = EmptyMap
  /\ logs = EmptyMap
  /\ children = {}
  /\ nextPid = 1
  /\ lastPid = MaxPid
  /\ restartAttempts = EmptyMap
  /\ timers = EmptyMap
  /\ pending = {}
  /\ out = <<>>
  /\ res = Res("init", "")
  /\ hStreak = [i \in Instances |-> NoSpan]
  /\ hLastExit = [i \in Instances |-> 1]
  /\ hGiveUps = [i \in Instances |-> 0]
  /\ hManual = [i \in Instances |-> FALSE]
  /\ hExited = {}
  /\ clients = <<>>
  /\ inbox = [k \in Sockets |-> <<>>]
  /\ NoSessions

NextRegistry ==
  \/ \E id \in Instances, autoRestart \in BOOLEAN :
       SMAdd([id |-> id, autoRestart |-> autoRestart, pid |-> Undefined])
  \/ \E id \in Instances, autoRestart \in BOOLEAN :
       SMUpdate(id, [autoRestart |-> autoRestart])
  \/ \E id \in Instances, autoRestart \in BOOLEAN, pid \in 0..MaxPid :
       SMUpdate(id, [id |-> id, autoRestart |-> autoRestart, pid |-> pid])
  \/ \E id \in Instances : SMRemove(id)
  \/ \E id \in Instances, pid \in 0..MaxPid : SMSetPid(id, pid)

SpecRegistry == InitRegistry /\ [][NextRegistry]_vars

\* the AuthManager and its handlers, from an installation with no auth
SpecAuth == InitRegistry /\ [][NextAuth]_vars

\* ProcessManager.restart with starts and exits in any order; the interval and
\* the timeout of restart's wait are events of the loop, in either order
NextRestart ==
  \/ \E id \in Instances, child \in SpawnOutcomes : PMStart(id, child)
  \/ \E id \in Instances, child \in SpawnOutcomes : PMRestart(id, child)
  \/ \E w \in pending, child \in SpawnOutcomes : RestartPoll(w, child)
  \/ \E w \in pending, child \in SpawnOutcomes : RestartCap(w, child)
  \/ \E c \in children : PMExit(c)
  \/ \E w \in pending : ChildError(w)

SpecRestart == Init /\ [][NextRestart]_vars

\* restart()'s 10 s timer is a timer of the event loop: once set it fires
SpecRestartFair ==
  /\ SpecRestart
  /\ WF_vars(\E w \in pending, child \in SpawnOutcomes : RestartCap(w, child))

\* The server with observers: WebSocket clients connect and close while the
\* start handler, the exit listener and the log listener broadcast
InitWs ==
  /\ instances = <<[id |-> "i1", autoRestart |-> FALSE, pid |-> Undefined]>>
  /\ processes = EmptyMap
  /\ logs = EmptyMap
  /\ children = {}
  /\ nextPid = 1
  /\ lastPid = MaxWsPid
  /\ restartAttempts = EmptyMap
  /\ timers = EmptyMap
  /\ pending = {}
  /\ out = <<>>
  /\ res = Res("init", "")
  /\ hStreak = [i \in Instances |-> NoSpan]
  /\ hLastExit = [i \in Instances |-> 1]
  /\ hGiveUps = [i \in Instances |-> 0]
  /\ hManual = [i \in Instances |-> FALSE]
  /\ hExited = {}
  /\ clients = <<>>
  /\ inbox = [k \in Sockets |-> <<>>]
  /\ NoSessions

NextWs ==
  \/ \E k \in Sockets : Connect(k)
  \/ \E k \in Sockets : SocketClosing(k)
  \/ \E k \in Sockets : CloseEvent(k)
  \/ \E bad \in {{}} \cup {{k} : k \in Sockets} : BroadcastCall(Ev("log", "i1", 0), bad)
  \/ ApiStart("i1", ChildProcess(nextPid))
  \/ \E w \in pending : StartDone(w, TRUE)
  \/ \E c \in children : ChildExit(c)
  \/ \E w \in pending : ExitDone(w, TRUE)

SpecWs == InitWs /\ [][NextWs]_vars

\* The log buffer: one instance is started, its process writes line after
\* line to stdout, and the buffer is read with and without a limit
Limits == {NoLimit, Limit(0 - 1), Limit(0), Limit(1), Limit(50), Limit(MaxLines)}

NextLog ==
  \/ PMStart("i1", ChildProcess(nextPid))
  \/ \E c \in children : LogLine(c)
  \/ \E id \in Instances, limit \in Limits : GetLogs(id, limit)

SpecLog == Init /\ [][NextLog]_vars

----------------------------------------------------------------------------
\* C1: every instance has at most one live child, and that child is the one
\* its handle holds; a start for an instance that has a handle fails as
\* 'already running' and changes neither the handles, the logs nor the OS, and
\* a start for an instance without a handle is never refused as 'already
\* running'.  So of any interleaved starts only the first one spawns.
C1_AtMostOneLiveHandle ==
  /\ [](\A i \in Instances :
          /\ Cardinality({c \in children : c.id = i}) <= 1
          /\ \A c \in children :
               c.id = i => (i \in DOMAIN processes /\ processes[i].pid = c.pid))
  /\ [][\A i \in Instances :
          (res'.op = "start" /\ res'.id = i) =>
             IF i \in DOMAIN processes
             THEN res'.err = "AlreadyRunning" /\ UNCHANGED pmVars
             ELSE res'.err # "AlreadyRunning" /\ i \in DOMAIN processes']_vars

C1_Witness ==
  /\ res.op = "start"
  /\ res.err = "AlreadyRunning"
  /\ \E c \in children : c.id = res.id /\ processes[res.id].pid = c.pid

\* C2: when start fails because the child got no pid, no handle of the
\* instance is registered once the error is surfaced.
C2_NoHandleAfterSpawnError ==
  (res.op \in {"apiStart", "timer"} /\ res.err = "SpawnError")
    => ~isRunning(processes, res.id)

\* C3: the exit of a child that was sent a signal by a stop request schedules
\* no automatic respawn.
C3_NoRespawnAfterManualStop ==
  (res.op = "exitDone" /\ res.err = "" /\ res.signal # "none") => res.backoffMs = 0

\* C4: in a crash loop the sixth consecutive crash-exit inside one 60 s span
\* is given up on: autoRestartFailed with attempts = 5 is broadcast and no
\* respawn is scheduled.
C4_GivesUpAfterFive ==
  (res.op = "exitDone" /\ res.err = "" /\ res.streak > MAX_ATTEMPTS)
    => /\ res.gaveUp
       /\ res.count = MAX_ATTEMPTS
       /\ res.backoffMs = 0
       /\ \E k \in 1..Len(out) :
            out[k] = Ev("autoRestartFailed", res.id, MAX_ATTEMPTS)

\* C5: the respawn scheduled after the N-th consecutive crash-exit inside one
\* 60 s span is delayed by N x 1000 ms, for N = 1..5.
C5_BackoffLinear ==
  (res.op = "exitDone" /\ res.err = "" /\ res.streak \in 1..MAX_ATTEMPTS)
    => res.backoffMs = res.streak * BACKOFF_STEP_MS

\* C6: an exit evaluated more than 60 s after the previous evaluated exit of
\* the instance is counted as attempt 1 and its respawn is delayed by 1000 ms.
C6_WindowReset ==
  (res.op = "exitDone" /\ res.err = "" /\ res.eligible /\ res.gap > WINDOW_MS)
    => (res.count = 1 /\ res.backoffMs = BACKOFF_STEP_MS /\ ~res.gaveUp)

\* an exit found a window of an earlier exit, more than 60 s old, and reset it
C6_Witness ==
  /\ res.op = "exitDone"
  /\ res.eligible
  /\ res.gap > WINDOW_MS
  /\ res.stale
  /\ res.count = 1

\* C7: autoRestartFailed is broadcast at most once while a window stays
\* exceeded (until it is reset or cleared, or the instance is started by hand).
C7_GiveUpOnce == \A i \in Instances : hGiveUps[i] <= 1

\* C8: the first crash-exit evaluated after a manual start is attempt 1.
C8_ManualStartClears ==
  (res.op = "exitDone" /\ res.err = "" /\ res.eligible /\ res.manual
     /\ res.signal = "none")
    => res.count = 1

C10_IgnoredExit ==
  [][(res'.op = "exitDone" /\ res'.err = "" /\ ~res'.eligible) =>
       /\ timers' = timers
       /\ restartAttempts' = restartAttempts
       /\ \A k \in 1..Len(out') : out'[k].type # "autoRestartFailed"
       /\ ~res'.found => instances' = instances]_vars

\* the exit of a deleted instance's child, while the instance still has a window
C10_Witness ==
  /\ res.op = "exitDone"
  /\ res.err = ""
  /\ ~res.found
  /\ res.id \in DOMAIN restartAttempts

\* C11: a respawn timer that fires for an instance that is no longer
\* registered, or that has a handle, spawns nothing and leaves the handles and
\* the log buffers alone; no firing of a respawn timer ends in 'already
\* running' and none leaves an instance with two live children.
C11_RespawnNeverDoubleStarts ==
  [][res'.op = "timer" =>
       /\ res'.err # "AlreadyRunning"
       /\ (~hasInstance(instances, res'.id) \/ res'.id \in DOMAIN processes)
            => (res'.err \in {"gone", "running"} /\ UNCHANGED pmVars
                /\ pending' = pending)
       /\ \A i \in Instances : Cardinality({c \in children' : c.id = i}) <= 1]_vars

\* a respawn timer fired while the process of a racing manual start was alive
C11_Witness ==
  /\ res.op = "timer"
  /\ res.err = "running"
  /\ \E c \in children : c.id = res.id /\ processes[res.id].pid = c.pid

\* C12: after a respawn timer has fired and found the instance gone or
\* running, the instance has no entry in restartAttempts.
C12_WindowClearedOnSkip ==
  (res.op = "timer" /\ res.err \in {"gone", "running"})
    => res.id \notin DOMAIN restartAttempts

\* C13: a respawn timer whose start fails broadcasts exactly one
\* autoRestartError, completes (the timer is consumed, nothing is left
\* suspended on its behalf) and leaves restartAttempts as it was.
C13_FailedRespawnKeepsWindow ==
  [][(res'.op = "timer" /\ res'.err \in {"SpawnError", "AlreadyRunning"}) =>
       /\ restartAttempts' = restartAttempts
       /\ out' = <<Ev("autoRestartError", res'.id, 0)>>
       /\ \A w \in pending' \ pending : w.kind = "childError"
       /\ \E t \in DOMAIN timers : t.id = res'.id /\ timers' = BagRemove(timers, t)]_vars

\* the start of a respawn failed while the instance had a window
C13_Witness ==
  /\ res.op = "timer"
  /\ res.err = "SpawnError"
  /\ res.id \in DOMAIN restartAttempts
  /\ restartAttempts[res.id].count >= 1
  /\ \E k \in 1..Len(out) : out[k].type = "autoRestartError"

\* C14: a start that fails loses no entry of the instance's log buffer: the
\* buffer it had before the call is still the beginning of its buffer.
C14_FailedStartKeepsLogs ==
  [][(res'.op \in {"apiStart", "timer"}
        /\ res'.err \in {"AlreadyRunning", "SpawnError"}
        /\ res'.id \in DOMAIN logs) =>
       /\ res'.id \in DOMAIN logs'
       /\ Len(logs'[res'.id]) >= Len(logs[res'.id])
       /\ SubSeq(logs'[res'.id], 1, Len(logs[res'.id])) = logs[res'.id]]_vars

\* C15: a stop for an instance without a handle, known or never seen, fails
\* as 'no running process' and changes nothing: no handle, no log buffer, no
\* child, no pending event, and nothing is broadcast.
C15_StopWithoutHandle ==
  [][(res'.op = "stop" /\ res'.id \notin DOMAIN processes) =>
       /\ res'.err = "NotRunning"
       /\ out' = <<>>
       /\ UNCHANGED <<pmVars, pending, instances, policyVars>>]_vars

\* a stop was refused for an id that never had a process
C15_Witness ==
  /\ res.op = "stop"
  /\ res.err = "NotRunning"
  /\ res.id \notin DOMAIN logs
  /\ res.id \notin DOMAIN processes

\* C16: a stop that succeeds leaves the handle registered and the child
\* alive; a handle disappears only in the step that handles the exit of its
\* process; a start for an instance whose handle was signalled and whose exit
\* has not arrived is refused as 'already running'.
C16_StopKeepsHandle ==
  [][/\ (res'.op = "stop" /\ res'.err = "") =>
          /\ res'.id \in DOMAIN processes'
          /\ processes'[res'.id].pid = processes[res'.id].pid
          /\ children' = children
     /\ \A i \in Instances :
          (i \in DOMAIN processes /\ i \notin DOMAIN processes')
            => (res'.op = "exit" /\ res'.id = i)
     /\ (res'.op = "start" /\ res'.id \in DOMAIN processes
           /\ processes[res'.id].signal # "none")
          => (res'.err = "AlreadyRunning" /\ UNCHANGED pmVars)]_vars

\* a start was refused between the stop of a process and its exit
C16_Witness ==
  /\ res.op = "start"
  /\ res.err = "AlreadyRunning"
  /\ res.id \in DOMAIN processes
  /\ processes[res.id].signal # "none"
  /\ \E c \in children : c.id = res.id /\ c.pid = processes[res.id].pid

\* C17: a process that has exited is gone for good (its pid is never handed
\* out again, so it has no second exit), the step that handles an exit leaves
\* the instance without a handle, and a start that follows it is not refused
\* as 'already running'.
C17_ExitFreesHandle ==
  /\ [](\A c \in children :
          /\ c.pid < nextPid
          /\ \A e \in children : e.pid = c.pid => e = c)
  /\ [][/\ res'.op = "exit" =>
             /\ res'.id \notin DOMAIN processes'
             /\ \A c \in children' : c.pid # res'.pid
        /\ (res.op = "exit" /\ res'.op = "start" /\ res'.id = res.id)
             => res'.err # "AlreadyRunning"]_vars

\* the exit of a process was handled and its instance has no handle
C17_Witness ==
  /\ res.op = "exit"
  /\ res.pid # Undefined
  /\ res.id \notin DOMAIN processes
  /\ \A c \in children : c.pid # res.pid

\* the j-th entry appended to the buffer of an instance since its start: the
\* 'Process started' entry, then the lines its process wrote, in order
C18_Appended(j) ==
  IF j = 1 THEN LogEntry("system", "started") ELSE LogEntry("stdout", ToString(j - 1))

\* C18: no log buffer holds more than 1000 entries; the buffer of a running
\* instance holds the last min(1000, appended) entries appended since its
\* start, in append order; getLogs without a limit returns that buffer.
C18_LogCap ==
  /\ \A id \in DOMAIN logs : Len(logs[id]) <= maxLogEntries
  /\ \A c \in children :
       LET total == c.wrote + 1
           len == Min(total, maxLogEntries)
       IN  /\ Len(logs[c.id]) = len
           /\ \A k \in 1..len : logs[c.id][k] = C18_Appended(total - len + k)
  /\ (res.op = "getLogs" /\ ~res.limit.given)
       => res.entries = (IF res.id \in DOMAIN logs THEN logs[res.id] ELSE <<>>)

\* more than 1000 entries were appended and getLogs returned exactly the last 1000
C18_Witness ==
  /\ res.op = "getLogs"
  /\ ~res.limit.given
  /\ \E c \in children :
       /\ c.id = res.id
       /\ c.wrote + 1 > maxLogEntries
       /\ Len(res.entries) = maxLogEntries
       /\ res.entries[1] = C18_Appended(c.wrote + 1 - maxLogEntries + 1)
       /\ res.entries[maxLogEntries] = C18_Appended(c.wrote + 1)

\* C19: getLogs with a limit of 0 or more returns the last min(limit,
\* retained) entries of the buffer, in order, and so at most limit entries;
\* without a limit it returns the whole buffer.
C19_GetLogsLimit ==
  res.op = "getLogs" =>
    LET l == IF res.id \in DOMAIN logs THEN logs[res.id] ELSE <<>>
        n == Min(res.limit.n, Len(l))
    IN  /\ ~res.limit.given => res.entries = l
        /\ (res.limit.given /\ res.limit.n >= 0) =>
             /\ Len(res.entries) <= res.limit.n
             /\ res.entries = SubSeq(l, Len(l) - n + 1, Len(l))

\* C20: once an instance has been deleted and its process is gone, getLogs
\* for it returns no entries.
C20_LogsDestroyedOnDelete ==
  (/\ res.op = "deleteDone"
   /\ res.err = ""
   /\ ~isRunning(processes, res.id)
   /\ \A w \in pending : w.id # res.id)
    => getLogs(logs, res.id, NoLimit) = <<>>

\* C21: a step that concerns instance A (a start, stop, exit, spawn error,
\* respawn or their continuations, failed or not) leaves, for every other
\* instance B, isRunning(B), getPid(B), B's log buffer and B's entry in
\* restartAttempts as they were.
C21_Isolation ==
  [][\A a \in Instances : res'.id = a =>
       \A b \in Instances \ {a} :
         /\ isRunning(processes', b) = isRunning(processes, b)
         /\ getPid(processes', b) = getPid(processes, b)
         /\ getLogs(logs', b, NoLimit) = getLogs(logs, b, NoLimit)
         /\ (b \in DOMAIN logs') = (b \in DOMAIN logs)
         /\ (b \in DOMAIN restartAttempts') = (b \in DOMAIN restartAttempts)
         /\ b \in DOMAIN restartAttempts
              => restartAttempts'[b] = restartAttempts[b]]_vars

\* a start of one instance failed while the other had a handle, a log buffer
\* and a window
C21_Witness ==
  /\ res.op = "apiStart"
  /\ res.err = "SpawnError"
  /\ \E b \in Instances \ {res.id} :
       /\ isRunning(processes, b)
       /\ b \in DOMAIN restartAttempts
       /\ getLogs(logs, b, NoLimit) # <<>>

C23_RestartAfterCap ==
  (/\ res.op = "restartDone"
   /\ res.via = "cap"
   /\ res.running
   /\ \E c \in children : c.id = res.id /\ getPid(processes, res.id) = c.pid)
    => res.err # "AlreadyRunning"

\* C24: stopAll sends SIGTERM to every instance that has a live handle when it
\* is called; a stop that throws is swallowed: stopAll itself reports no error,
\* removes no handle, and every other live handle is still signalled, whatever
\* the set of instances whose stop throws.
C24_StopAllBestEffort ==
  [][res'.op = "stopAll" =>
       /\ res'.err = ""
       /\ DOMAIN processes' = DOMAIN processes
       /\ \A id \in DOMAIN processes :
            /\ (id \notin res'.failed /\ processes[id].pid # Undefined)
                 => processes'[id].signal = "SIGTERM"
            /\ Len(logs'[id]) = Len(logs[id]) + 1
            /\ logs'[id][Len(logs'[id])].message = "stopping"]_vars

\* stopAll ran over two live handles, the stop of one threw, and the other one
\* was signalled
C24_Witness ==
  /\ res.op = "stopAll"
  /\ \E bad \in res.failed, id \in DOMAIN processes \ res.failed :
       /\ bad \in DOMAIN processes
       /\ processes[bad].pid # Undefined
       /\ processes[bad].signal = "none"
       /\ processes[id].pid # Undefined
       /\ processes[id].signal = "SIGTERM"
       /\ Cardinality(children) = 2

\* C25: when the send to one observer throws during a broadcast, the event
\* still reaches every other open observer and no error comes back to the
\* handler that called broadcast.
C25_SendFailureContained ==
  (res.op = "broadcast" /\ res.ws # "") =>
    /\ res.err = ""
    /\ \A k \in Sockets :
         (isOpen(clients, k) /\ k # res.ws) =>
           /\ Len(inbox[k]) > 1
           /\ inbox[k][Len(inbox[k])] = out[1]

\* C26: an observer whose send threw during a broadcast is no longer in the
\* client set when the broadcast is over.
C26_FailedObserverPruned ==
  (res.op = "broadcast" /\ res.ws # "") => ~inClients(clients, res.ws)

\* C27: every step gives an observer either nothing or exactly the messages
\* the step passed to broadcast, each once and in the order of the calls,
\* appended to what the observer already has; an observer that is not
\* connected gets nothing, and a connecting observer starts with the snapshot
\* alone, none of the events broadcast before it connected.
C27_OnceInOrder ==
  [][\A k \in Sockets :
       IF res'.op = "connection" /\ res'.ws = k
       THEN /\ Len(inbox'[k]) = 1
            /\ inbox'[k][1].type = "instances"
       ELSE IF res'.op = "closing" /\ res'.ws = k
       THEN inbox'[k] = <<>>
       ELSE /\ inbox'[k] = inbox[k] \/ inbox'[k] = inbox[k] \o out'
            /\ (isOpen(clients, k) /\ res'.err # "SendRaised")
                 => inbox'[k] = inbox[k] \o out'
            /\ ~isOpen(clients, k) => inbox'[k] = inbox[k]]_vars

\* one observer has the snapshot, then a log event, then the two events of
\* the start handler; the other connected after them and has its snapshot only
C27_Witness ==
  \E k, late \in Sockets :
    /\ k # late
    /\ isOpen(clients, k)
    /\ isOpen(clients, late)
    /\ Len(inbox[k]) = 4
    /\ inbox[k][2].type = "log"
    /\ inbox[k][3].type = "instanceStarted"
    /\ inbox[k][4] = InstancesEv(instances)
    /\ Len(inbox[late]) = 1

\* C28: the first message an observer receives is the `instances` snapshot,
\* and it carries the registry as it is when the observer connects.
C28_SnapshotFirst ==
  /\ [](\A k \in Sockets :
          isOpen(clients, k) =>
            /\ inbox[k] # <<>>
            /\ inbox[k][1].type = "instances")
  /\ [][res'.op = "connection" =>
          inbox'[res'.ws] = <<InstancesEv(instances)>>]_vars

\* an observer connects while the instance runs: its snapshot shows the pid,
\* the snapshot of the observer that connected before the start does not
C28_Witness ==
  /\ res.op = "connection"
  /\ inbox[res.ws] = <<InstancesEv(instances)>>
  /\ instances[1].pid # Undefined
  /\ \E k \in Sockets \ {res.ws} :
       /\ Len(inbox[k]) > 1
       /\ inbox[k][1].data[1].pid = Undefined

\* C29: the instanceStarted event of a process is broadcast before the
\* processExit event of the same process: no start handler or respawn callback
\* broadcasts instanceStarted for a pid whose processExit has already been
\* broadcast.
C29_StartedBeforeExit ==
  (/\ res.op \in {"startDone", "respawnDone"}
   /\ res.err = ""
   /\ out # <<>>
   /\ out[1].type = "instanceStarted")
    => out[1].n \notin hExited

\* C30: when the 'exit' event of an instance is delivered to the listeners,
\* isRunning(instanceId) is false and getPid(instanceId) is absent.
C30_HandleGoneAtExitEvent ==
  res.op = "exit" => (~res.running /\ res.seenPid = Undefined)

\* C31: whenever the registry records a pid for an instance, ProcessManager
\* holds the handle of a live process of that instance with that pid.
C31_RegistryPidLive ==
  \A i \in 1..Len(instances) :
    instances[i].pid # Undefined =>
      /\ isRunning(processes, instances[i].id)
      /\ getPid(processes, instances[i].id) = instances[i].pid
      /\ [id |-> instances[i].id, pid |-> instances[i].pid, wrote |-> 0] \in children

\* C32: no step spawns a process for an instance that is not in the registry.
C32_NoSpawnAfterDelete ==
  [][\A c \in children' \ children : hasInstance(instances, c.id)]_vars

\* C33: a respawn timer starts the process only if the instance's autoRestart
\* flag is on when the timer fires.
C33_RespawnOnlyWhileEnabled ==
  (res.op = "timer" /\ res.pid # Undefined) => getById(instances, res.id).autoRestart

\* C34: the attempt count stored for an instance is always between 1 and 5
\* and grows only from a value below 5; an autoRestartFailed event carries
\* attempts = 5, and no respawn is scheduled more than 5000 ms ahead.
C34_CountWithinOneToFive ==
  /\ [](/\ \A id \in DOMAIN restartAttempts :
             restartAttempts[id].count \in 1..MAX_ATTEMPTS
        /\ \A k \in 1..Len(out) :
             out[k].type = "autoRestartFailed" => out[k].n = MAX_ATTEMPTS
        /\ res.backoffMs <= MAX_ATTEMPTS * BACKOFF_STEP_MS
        /\ \A t \in DOMAIN timers : t.fireAt <= MAX_ATTEMPTS * BACKOFF_STEP_MS)
  /\ [][\A id \in DOMAIN restartAttempts' :
          loadInfo(restartAttempts, id).count < restartAttempts'[id].count
            => /\ loadInfo(restartAttempts, id).count < MAX_ATTEMPTS
               /\ restartAttempts'[id].count <= loadInfo(restartAttempts, id).count + 1]_vars

\* the fifth attempt has been counted and the next exit is given up on
C34_Witness ==
  /\ res.op = "exitDone"
  /\ res.gaveUp
  /\ "i1" \in DOMAIN restartAttempts
  /\ restartAttempts["i1"].count = MAX_ATTEMPTS
  /\ \E k \in 1..Len(out) : out[k] = Ev("autoRestartFailed", "i1", MAX_ATTEMPTS)

\* C35: at most one respawn timer is pending per instance.
C35_OneTimerPerInstance ==
  \A id \in Instances :
    /\ Cardinality({t \in DOMAIN timers : t.id = id}) <= 1
    /\ \A t \in DOMAIN timers : t.id = id => timers[t] <= 1

\* C36: after a successful start the log buffer of the instance holds exactly
\* one entry, the 'Process started' notice, whatever it held before.
C36_StartReplacesLogs ==
  [][(res'.op = "start" /\ res'.err = "") =>
       getLogs(logs', res'.id, NoLimit) = <<LogEntry("system", "started")>>]_vars

\* the second run of an instance has started: the entries of the first run
\* (its start, its stop, its exit) are gone
C36_Witness ==
  /\ res.op = "start"
  /\ res.err = ""
  /\ res.pid > 1
  /\ \A c \in children : c.id = res.id => c.pid = res.pid
  /\ processes[res.id].pid = res.pid
  /\ logs[res.id] = <<LogEntry("system", "started")>>

\* C37: a restart that waits for its process always comes to an end: the
\* wait is resolved, by the interval or by the 10 s timeout, and restart
\* returns a pid or fails with the error of start.  (The model follows a run
\* only while the OS has a pid left to hand out.)
C37_RestartTerminates ==
  \A id \in Instances :
    (\E w \in pending : w.kind = "restartWait" /\ w.id = id)
      ~> \/ ~\E w \in pending : w.kind = "restartWait" /\ w.id = id
         \/ nextPid > lastPid

\* a restart ended at the timeout while its process, signalled, still lives
C37_Witness ==
  /\ res.op = "restartDone"
  /\ res.via = "cap"
  /\ res.running
  /\ \E c \in children : c.id = res.id /\ getPid(processes, res.id) = c.pid
  /\ processes[res.id].signal = "SIGTERM"
  /\ \A w \in pending : ~(w.kind = "restartWait" /\ w.id = res.id)

\* C38: no two entries of the registry have the same id; add with an id that
\* exists fails, update, remove and setPid with an id that does not exist
\* fail with not-found, and a call that fails leaves the list as it was.
C38_UniqueIds ==
  /\ [](\A j, k \in 1..Len(instances) :
          instances[j].id = instances[k].id => j = k)
  /\ [][/\ (res'.op = "add" /\ hasInstance(instances, res'.id))
             => (res'.err = "AlreadyExists" /\ instances' = instances)
        /\ (res'.op \in {"update", "remove", "setPid"} /\ ~hasInstance(instances, res'.id))
             => (res'.err = "NotFound" /\ instances' = instances)
        /\ res'.err # "" => instances' = instances]_vars

\* an add with an id the registry holds has failed, the registry holding
\* both instances
C38_Witness ==
  /\ res.op = "add"
  /\ res.err = "AlreadyExists"
  /\ Len(instances) = 2
  /\ instances[1].id # instances[2].id

\* C39: with auth configured, a request to a path under /api/ other than
\* login and status gets past the middleware exactly when the token it
\* carries was issued by createSession, has not been passed to deleteSession
\* since, and is no older than the session lifetime; otherwise the answer is
\* 401; and a validation of an expired token removes it from the sessions.
C39_OnlySessionsPass ==
  [][LET token == res'.token
         issued == token \in DOMAIN hCreatedAt
         fresh == issued /\ clock - hCreatedAt[token] <= sessionDuration
     IN /\ (/\ res'.op \in {"request", "logout", "setup"}
            /\ auth
            /\ startsWithApi(res'.path)
            /\ res'.path \notin {LoginPath, StatusPath})
             => /\ res'.next <=> fresh
                /\ ~res'.next => res'.status = 401
        /\ (/\ res'.op \in {"request", "logout", "setup", "status"}
            /\ res'.validated
            /\ token \in DOMAIN sessions
            /\ ~fresh)
             => token \notin DOMAIN sessions']_vars

\* a request behind the middleware carried a token that was issued and is
\* now expired: it was answered 401 and the token is gone from the sessions
C39_Witness ==
  /\ res.op = "request"
  /\ startsWithApi(res.path)
  /\ auth
  /\ res.validated
  /\ res.status = 401
  /\ res.token \in DOMAIN hCreatedAt
  /\ clock - hCreatedAt[res.token] > sessionDuration
  /\ res.token \notin DOMAIN sessions

====
